---- MODULE Spec2Model ----
(***************************************************************************)
(* State-machine model of sidecar's session monitoring core:               *)
(*   - package tieredwatcher (src/unnamed/part_004): TieredWatcher and     *)
(*     Manager, their background goroutines and their shutdown;            *)
(*   - the per-agent session status classifiers                            *)
(*     (src/internal/plugins/workspace/agent_session.go).                  *)
(* Times are milliseconds.  Every action is one critical section of the    *)
(* code (the span between a Lock and its Unlock) or one step a goroutine   *)
(* takes outside any lock (a stat, a channel operation).                   *)
(***************************************************************************)
EXTENDS Integers, Sequences, FiniteSets, TLC

(***************************************************************************)
(* Program constants.                                                      *)
(***************************************************************************)
MaxHotSessions == 3
ColdPollInterval == 30000
HotInactivityTimeout == 300000
debounceDelay == 100
claudeActivityThreshold == 5000
sessionActivityThreshold == 30000
subagentMaxStaleness == 120000

\* The zero time.Time: the ModTime of a session whose stat failed at
\* registration and the LastHot of a session that was never promoted.
ZeroTime == 0

(***************************************************************************)
(* Bounds of the model.                                                    *)
(***************************************************************************)
\* Capacity of a watcher's outbound channel (32 in New) as modelled.
EventsCap == 2
\* Capacity of the manager's merged channel (64 in NewManager) as modelled.
MergedCap == 2
\* Number of clock advances a behaviour of the tier specification takes.
TierTicks == 3
\* Largest file size the modelled file system records.
MaxSize == 1
\* Notifications the OS queues for watchLoop before it loses one.
FsCap == 1
\* Number of clock advances a behaviour of the shutdown specification takes.
CloseTicks == 2
\* Number of long and of short clock advances a behaviour of the life
\* specification takes.
LifeTicks == 1
LifeShortTicks == 1
\* Number of clock advances a behaviour of the cache specification takes.
CacheTicks == 3
\* Number of clock advances a behaviour of the debounce specification takes.
DebounceTicks == 3
\* Number of clock advances a behaviour of the one-file specification takes.
BurstTicks == 6
\* Number of clock advances a behaviour of the no-reader specification takes.
FlowTicks == 2
\* The time of the classifier's call, later than every file's age.
DetectNow == 1000000
\* Number of clock advances a behaviour of the promotion specification takes.
PromoteTicks == 5
\* Number of clock advances a behaviour of the batch specification takes.
BatchTicks == 1
\* Number of clock advances a behaviour of the poller specification takes.
PollTicks == 1
\* Number of clock advances a behaviour of the operations specification takes.
OpsTicks == 3
\* Number of events the second watcher of the merge specification emits.
PeerEmits == 3
\* Number of clock advances a behaviour of the merge specification takes.
MergeTicks == 2
\* Number of clock advances a behaviour of the stop specification takes.
StopTicks == 1

(***************************************************************************)
(* Paths.  A path is the record of its directory, base name and extension; *)
(* filepath.Dir, filepath.Ext and the adapter's extractID (the file name   *)
(* without its extension) read the fields.                                 *)
(***************************************************************************)
rootDir == "root"
filePattern == ".jsonl"

MkPath(d, b, e) == [dir |-> d, base |-> b, ext |-> e]
Dir(p) == p.dir
Ext(p) == p.ext
extractID(p) == p.base

\* Session files, each in a directory of its own under the root.
P1 == MkPath("d1", "s1", ".jsonl")
P2 == MkPath("d2", "s2", ".jsonl")
P3 == MkPath("d3", "s3", ".jsonl")
P4 == MkPath("d4", "s4", ".jsonl")
\* Two session files and a foreign file directly in the root directory.
PA == MkPath("root", "sa", ".jsonl")
PB == MkPath("root", "sb", ".jsonl")
PX == MkPath("root", "sx", ".tmp")
AllPaths == {P1, P2, P3, P4, PA, PB, PX}

NoFile == [exists |-> FALSE, mtime |-> ZeroTime, size |-> 0]

VARIABLES
  \* ---- TieredWatcher fields
  sessions,     \* tw.sessions: session ID -> SessionInfo
  hotIDs,       \* tw.hotIDs
  watchDirs,    \* tw.watchDirs
  events,       \* tw.events: the buffered outbound channel's content
  eventsClosed, \* whether close(tw.events) has run
  closed,       \* tw.closed
  pollDone,     \* whether close(tw.pollDone) has run
  watcherOpen,  \* whether the fsnotify watcher is still open
  \* ---- environment
  now,          \* the wall clock
  disk,         \* path -> [exists, mtime, size]
  \* ---- pollLoop goroutine
  pollPc,       \* "idle" | "loop" | "update" | "send" | "exited"
  pollTick,     \* whether pollTicker.C holds a tick not yet received
  toCheck,      \* the checkInfo records still to stat in this cycle
  pollCur,      \* the checkInfo being handled and its stat result
  \* ---- demotionLoop goroutine
  demotePc,     \* "idle" | "exited"
  \* ---- watchLoop goroutine and its debounce timer
  fsEvents,     \* tw.watcher.Events: notifications not yet received
  loopPc,       \* "run" | "exited"
  lastPath,     \* watchLoop's lastPath (shared with the callbacks)
  timer,        \* the armed debounce timer: <<>> or <<[deadline, op]>>
  wlClosed,     \* watchLoop's local closed flag
  fired,        \* callbacks whose timer fired and that wait for mu
  cbPc,         \* the running callback: "none" | "locked" | "send"
  cbOp,         \* its capturedEvent.Op
  cbSid,        \* its sessionID
  \* ---- TieredWatcher.Close callers
  closePc,      \* caller -> "idle" | "stop" | "watcher" | "events" | "peerEvents" | "done"
  \* ---- Manager
  mClosed,      \* m.closed
  watchers,     \* m.watchers: adapter ID -> watcher, "none" where absent
  closers,      \* m.closers: the watchers whose closer was appended, in order
  mTodo,        \* caller -> the closers its Manager.Close has still to call
  peer,         \* a second TieredWatcher: [closed, eventsClosed, fwd, events, evt, emitted, sessions, hotIDs, watchDirs]
  mEvents,      \* m.events: the merged channel's content
  mEventsClosed,\* whether close(m.events) has run
  fwdPc,        \* forwarding goroutine: "none" | "recv" | "check" | "send" | "exited"
  fwdEvt,       \* the event it holds
  mClosePc,     \* caller -> "idle" | "closers" | "events" | "done"
  \* ---- outcome and history
  panicked,     \* the goroutines that panicked (send on / close of a closed channel)
  hist          \* history variables of the properties
  \* ---- classifier inputs and result
  , det
  \* ---- the Codex session files, the process-wide caches and their users
  , codex
  \* ---- what the last Manager.Stats returned
  , mStats
  \* ---- tw.mu and the statements its users have still to execute
  , lk

tierVars == <<hotIDs, watchDirs>>
chanVars == <<eventsClosed, closed, pollDone, watcherOpen>>
twVars == <<sessions, tierVars, events, chanVars>>
envVars == <<now, disk>>
pollVars == <<pollPc, pollTick, toCheck, pollCur>>
cbVars == <<cbPc, cbOp, cbSid>>
wlVars == <<fsEvents, loopPc, lastPath, timer, wlClosed, fired, cbVars>>
regVars == <<watchers, closers, mTodo, peer>>
mgrVars == <<mClosed, regVars, mEvents, mEventsClosed, fwdPc, fwdEvt, mClosePc>>
detVars == <<det, codex, mStats, lk>>
ghostVars == <<hist, detVars>>
vars == <<twVars, envVars, pollVars, demotePc, wlVars, closePc, mgrVars, panicked, ghostVars>>

Callers == {"c1", "c2"}

\* The watchers handed to the manager (the one whose goroutines are modelled
\* and a second one, of which only the shutdown is) and the adapter IDs.
Watchers == {"tw", "peer"}
AdapterIDs == {"a1", "a2"}

(***************************************************************************)
(* Helpers on sequences.                                                   *)
(***************************************************************************)
SeqContains(s, x) == \E i \in 1..Len(s) : s[i] = x
RemoveAt(s, idx) == SubSeq(s, 1, idx - 1) \o SubSeq(s, idx + 1, Len(s))
Range(s) == {s[i] : i \in 1..Len(s)}

\* os.Stat
Stat(p) == disk[p]

\* adapter.Event
Event(t, id) == [Type |-> t, SessionID |-> id]

\* A panic aborts the host process: no goroutine takes another step.
Alive == panicked = {}

(***************************************************************************)
(* TieredWatcher: registration, promotion, demotion.                       *)
(***************************************************************************)
\* The SessionInfo RegisterSession builds: the stat's mtime and size when the
\* stat succeeds, the zero values otherwise; LastHot is the zero time.
NewInfo(id, path, st) ==
  [ID |-> id, Path |-> path,
   ModTime |-> IF st.exists THEN st.mtime ELSE ZeroTime,
   LastHot |-> ZeroTime,
   FileSize |-> IF st.exists THEN st.size ELSE 0]

demoteLastLocked(h, s, t) ==
  IF Len(h) = 0 THEN h ELSE SubSeq(h, 1, Len(h) - 1)

demoteFirstLocked(h, s, t) ==
  IF Len(h) = 0 THEN h ELSE Tail(h)

\* demoteOldestLocked's scan: the index of the first hot session whose
\* LastHot is before every earlier candidate's, starting from time.Now().
RECURSIVE OldestScan(_, _, _, _, _)
OldestScan(h, s, i, oldestIdx, oldestTime) ==
  IF i > Len(h) THEN oldestIdx
  ELSE IF h[i] \in DOMAIN s /\ s[h[i]].LastHot < oldestTime
       THEN OldestScan(h, s, i + 1, i, s[h[i]].LastHot)
       ELSE OldestScan(h, s, i + 1, oldestIdx, oldestTime)

\* demoteOldestLocked: the hot list without its oldest entry.
demoteOldestLocked(h, s, t) ==
  IF Len(h) = 0 THEN h ELSE RemoveAt(h, OldestScan(h, s, 1, 1, t))

\* PromoteToHot's capacity rule: past MaxHotSessions the oldest is demoted.
EnforceCapacity(h, s, t) ==
  IF Len(h) > MaxHotSessions THEN demoteOldestLocked(h, s, t) ELSE h

\* The directory watch both promotions add: tw.watcher.Add(dir) for a
\* directory not yet in watchDirs, recorded only when Add succeeds (addOK).
WatchDir(w, dir, addOK) ==
  IF dir \in w THEN w ELSE IF addOK THEN w \cup {dir} ELSE w

\* RegisterSession as it would be if a known ID's entry were replaced.
RegisterSessionOverwrite(id, path) ==
  /\ Alive
  /\ sessions' = (id :> NewInfo(id, path, Stat(path))) @@ sessions
  /\ UNCHANGED <<tierVars, events, chanVars, envVars, pollVars, demotePc, wlVars, closePc, mgrVars, panicked, ghostVars>>

\* RegisterSession(id, path): a no-op for a known id; the stat is taken
\* inside the critical section.
RegisterSession(id, path) ==
  /\ Alive
  /\ sessions' = IF id \in DOMAIN sessions THEN sessions
                 ELSE sessions @@ (id :> NewInfo(id, path, Stat(path)))
  /\ UNCHANGED <<tierVars, events, chanVars, envVars, pollVars, demotePc, wlVars, closePc, mgrVars, panicked, ghostVars>>

\* PromoteToHot(sessionID); addOK is whether tw.watcher.Add succeeds.
\* PromoteToHot as it would be without the test for a session that is hot
\* already.
PromoteToHotAppends(sessionID, addOK) ==
  /\ Alive
  /\ IF sessionID \notin DOMAIN sessions
     THEN UNCHANGED <<sessions, hotIDs, watchDirs>>
     ELSE LET s1 == [sessions EXCEPT ![sessionID].LastHot = now] IN
          /\ sessions' = s1
          /\ hotIDs' = EnforceCapacity(Append(hotIDs, sessionID), s1, now)
          /\ watchDirs' = WatchDir(watchDirs, Dir(s1[sessionID].Path), addOK)
  /\ UNCHANGED <<events, chanVars, envVars, pollVars, demotePc, wlVars, closePc, mgrVars, panicked, ghostVars>>

PromoteToHot(sessionID, addOK) ==
  /\ Alive
  /\ IF sessionID \notin DOMAIN sessions
     THEN UNCHANGED <<sessions, hotIDs, watchDirs>>
     ELSE LET s1 == [sessions EXCEPT ![sessionID].LastHot = now] IN
          /\ sessions' = s1
          /\ IF SeqContains(hotIDs, sessionID)
             THEN UNCHANGED <<hotIDs, watchDirs>>
             ELSE /\ hotIDs' = EnforceCapacity(Append(hotIDs, sessionID), s1, now)
                  /\ watchDirs' = WatchDir(watchDirs, Dir(s1[sessionID].Path), addOK)
  /\ UNCHANGED <<events, chanVars, envVars, pollVars, demotePc, wlVars, closePc, mgrVars, panicked, ghostVars>>

\* The orders sort.Slice can leave the (id, modTime) pairs in: every
\* arrangement of the known sessions with modTime non-increasing (the map's
\* iteration order and the unstable sort decide among equal modTimes).
RECURSIVE SortedOrders(_, _)
SortedOrders(s, ids) ==
  IF ids = {} THEN {<<>>}
  ELSE UNION {{<<x>> \o r : r \in SortedOrders(s, ids \ {x})} :
                x \in {y \in ids : \A z \in ids : ~(s[z].ModTime > s[y].ModTime)}}

SortedByModTime(s) == SortedOrders(s, DOMAIN s)

\* One turn of autoPromoteRecentLocked's loop for the session id.
RECURSIVE AutoPromoteLoop(_, _, _, _, _, _)
AutoPromoteLoop(sorted, i, s, h, w, okDirs) ==
  IF ~(i <= MaxHotSessions /\ i <= Len(sorted)) THEN <<s, h, w>>
  ELSE LET id == sorted[i]
           s1 == [s EXCEPT ![id].LastHot = now]
           h1 == IF SeqContains(h, id) THEN h ELSE Append(h, id)
           w1 == WatchDir(w, Dir(s1[id].Path), Dir(s1[id].Path) \in okDirs)
       IN AutoPromoteLoop(sorted, i + 1, s1, h1, w1, okDirs)

autoPromoteIfRoom(sorted, s, h, w, okDirs) ==
  IF Cardinality(DOMAIN s) = 0 \/ Len(h) >= MaxHotSessions THEN <<s, h, w>>
  ELSE AutoPromoteLoop(sorted, 1, s, h, w, okDirs)

\* autoPromoteRecentLocked, for one outcome of the sort.
autoPromoteRecentLocked(sorted, s, h, w, okDirs) ==
  IF Cardinality(DOMAIN s) = 0 THEN <<s, h, w>>
  ELSE AutoPromoteLoop(sorted, 1, s, h, w, okDirs)

\* The map after RegisterSessions' loop: the batch's unknown sessions added
\* with the ModTime and FileSize the caller passed.
RECURSIVE AddBatch(_, _)
AddBatch(s, batch) ==
  IF batch = <<>> THEN s
  ELSE LET b == Head(batch) IN
       AddBatch(IF b.ID \in DOMAIN s THEN s
                ELSE s @@ (b.ID :> [ID |-> b.ID, Path |-> b.Path, ModTime |-> b.ModTime,
                                    LastHot |-> ZeroTime, FileSize |-> b.FileSize]),
                Tail(batch))

\* RegisterSessions(batch); okDirs are the directories tw.watcher.Add accepts.
RegisterSessions(batch, okDirs) ==
  /\ Alive
  /\ LET s1 == AddBatch(sessions, batch) IN
     \E sorted \in SortedByModTime(s1) :
       LET r == autoPromoteRecentLocked(sorted, s1, hotIDs, watchDirs, okDirs) IN
       /\ sessions' = r[1]
       /\ hotIDs' = r[2]
       /\ watchDirs' = r[3]
  /\ UNCHANGED <<events, chanVars, envVars, pollVars, demotePc, wlVars, closePc, mgrVars, panicked, ghostVars>>

RECURSIVE RemainingInclusive(_, _, _)
RemainingInclusive(h, s, cutoff) ==
  IF h = <<>> THEN <<>>
  ELSE IF Head(h) \in DOMAIN s /\ s[Head(h)].LastHot >= cutoff
       THEN <<Head(h)>> \o RemainingInclusive(Tail(h), s, cutoff)
       ELSE RemainingInclusive(Tail(h), s, cutoff)

\* demoteInactive's filter: the hot sessions whose LastHot is after the cutoff.
RECURSIVE Remaining(_, _, _)
Remaining(h, s, cutoff) ==
  IF h = <<>> THEN <<>>
  ELSE IF Head(h) \in DOMAIN s /\ s[Head(h)].LastHot > cutoff
       THEN <<Head(h)>> \o Remaining(Tail(h), s, cutoff)
       ELSE Remaining(Tail(h), s, cutoff)

\* demoteInactive, one sweep of the demotionLoop goroutine.
demoteInactive ==
  /\ Alive
  /\ demotePc = "idle"
  /\ hotIDs' = Remaining(hotIDs, sessions, now - HotInactivityTimeout)
  /\ UNCHANGED <<sessions, watchDirs, events, chanVars, envVars, pollVars, demotePc, wlVars, closePc, mgrVars, panicked, ghostVars>>

\* demotionLoop's exit on the done signal.
DemoteExit ==
  /\ Alive
  /\ demotePc = "idle"
  /\ pollDone
  /\ demotePc' = "exited"
  /\ UNCHANGED <<twVars, envVars, pollVars, wlVars, closePc, mgrVars, panicked, ghostVars>>

(***************************************************************************)
(* The environment: the clock and the session files.                       *)
(***************************************************************************)
\* An fsnotify.Event: the file's path and the set of Op bits.
FsEvent(p, op) == [Name |-> p, Op |-> op]

\* The notification queue after the OS reports op on p: nothing for a
\* directory that is not watched or a closed watcher; an event equal to the
\* last unread one is coalesced; an event that finds the queue full is lost
\* (the notification source guarantees no delivery).
\* The OS queue as it would be if notifications arrived for files in
\* directories that are not watched, too.
NotifiedAnywhere(q, p, op) ==
  IF ~watcherOpen THEN q
  ELSE IF q # <<>> /\ q[Len(q)] = FsEvent(p, op) THEN q
  ELSE IF Len(q) < FsCap THEN Append(q, FsEvent(p, op))
  ELSE q

Notified(q, p, op) ==
  IF ~watcherOpen \/ Dir(p) \notin watchDirs THEN q
  ELSE IF q # <<>> /\ q[Len(q)] = FsEvent(p, op) THEN q
  ELSE IF Len(q) < FsCap THEN Append(q, FsEvent(p, op))
  ELSE q

\* The clock advances by d.
Tick(d) ==
  /\ Alive
  /\ now' = now + d
  /\ UNCHANGED <<disk, twVars, pollVars, demotePc, wlVars, closePc, mgrVars, panicked, ghostVars>>

\* The agent appends to (or creates) the file at p; grow says whether the
\* write changes the file's size.
WriteFile(p, grow) ==
  /\ Alive
  /\ disk' = [disk EXCEPT ![p] = [exists |-> TRUE, mtime |-> now,
                                  size |-> IF grow /\ @.size < MaxSize THEN @.size + 1 ELSE @.size]]
  /\ fsEvents' = Notified(fsEvents, p, IF disk[p].exists THEN {"Write"} ELSE {"Create"})
  /\ UNCHANGED <<now, twVars, pollVars, demotePc, loopPc, lastPath, timer, wlClosed, fired, cbVars, closePc, mgrVars, panicked, ghostVars>>

\* The file at p is removed.
RemoveFile(p) ==
  /\ Alive
  /\ disk[p].exists
  /\ disk' = [disk EXCEPT ![p] = NoFile]
  /\ fsEvents' = Notified(fsEvents, p, {"Remove"})
  /\ UNCHANGED <<now, twVars, pollVars, demotePc, loopPc, lastPath, timer, wlClosed, fired, cbVars, closePc, mgrVars, panicked, ghostVars>>

\* The mode or owner of the file at p changes: a notification that is
\* neither a create, a write nor a remove.
ChmodFile(p) ==
  /\ Alive
  /\ disk[p].exists
  /\ fsEvents' = Notified(fsEvents, p, {"Chmod"})
  /\ UNCHANGED <<now, disk, twVars, pollVars, demotePc, loopPc, lastPath, timer, wlClosed, fired, cbVars, closePc, mgrVars, panicked, ghostVars>>

(***************************************************************************)
(* History variables: what the properties of the notification consumer and *)
(* of full queues need to remember of the past.                            *)
(***************************************************************************)
\* The history variables when nothing is recorded, and when the bursts of
\* notifications or the drops on full channels are.
NoHist ==
  [on |-> {}, burst |-> 0, lastAt |-> <<>>, burstLast |-> <<>>, emits |-> <<>>,
   notes |-> <<>>, timerBurst |-> 0, firedBurst |-> <<>>, cbBurst |-> 0,
   early |-> FALSE, handled |-> {}, pend |-> {}, drops |-> {},
   owed |-> {}, due |-> {}, missed |-> {}, seenAt |-> <<>>,
   log |-> [w \in Watchers |-> <<>>], heldNo |-> [w \in Watchers |-> 0], out |-> <<>>,
   cycle |-> [done |-> FALSE, cold |-> {}, hot |-> {}, prev |-> <<>>, seen |-> <<>>, emits |-> <<>>]]
HistBursts == [NoHist EXCEPT !.on = {"bursts"}]
HistDrops == [NoHist EXCEPT !.on = {"drops"}]
HistPoll == [NoHist EXCEPT !.on = {"poll"}]
HistHeal == [NoHist EXCEPT !.on = {"heal"}]
HistActivity == [NoHist EXCEPT !.on = {"activity"}]

\* A debounce callback handles a change of the file of session sid at the
\* time t.
HistSeen(h, sid, t) ==
  IF "activity" \notin h.on THEN h
  ELSE [h EXCEPT !.seenAt = (sid :> t) @@ @]

\* A poll cycle begins: the cold sessions whose last detected change the
\* poller could not enqueue are due an event.
HistHealBegin(h, s, hot) ==
  IF "heal" \notin h.on THEN h
  ELSE [h EXCEPT !.due = h.owed \cap (DOMAIN s \ Range(hot))]

\* The cycle has stat'ed the file of id: a session due an event whose file
\* is there is passed by (changed is FALSE) while the queue ch has room.
HistHealStat(h, id, st, changed, ch) ==
  IF "heal" \notin h.on THEN h
  ELSE IF id \in h.due /\ st.exists /\ ~changed /\ Len(ch) < EventsCap
  THEN [h EXCEPT !.missed = @ \cup {id}]
  ELSE h

\* The poller's send for id on the queue ch: dropped when ch is full.
HistHealSend(h, id, ch) ==
  IF "heal" \notin h.on THEN h
  ELSE IF Len(ch) >= EventsCap THEN [h EXCEPT !.owed = @ \cup {id}]
  ELSE [h EXCEPT !.owed = @ \ {id}]

\* A poll cycle begins: the sessions known, which of them are hot, and their
\* cached mtime and size are remembered; nothing is stat'ed or sent yet.
HistPollBegin(h, s, hot) ==
  IF "poll" \notin h.on THEN h
  ELSE [h EXCEPT !.cycle = [done |-> FALSE,
                            cold |-> DOMAIN s \ Range(hot),
                            hot |-> DOMAIN s \cap Range(hot),
                            prev |-> [id \in DOMAIN s |-> [ModTime |-> s[id].ModTime, FileSize |-> s[id].FileSize]],
                            seen |-> [id \in DOMAIN s |-> <<>>],
                            emits |-> [id \in DOMAIN s |-> 0]]]

\* The cycle stats the file of the session id with result st (at most two
\* stats of a session are told apart).
HistPollStat(h, id, st) ==
  IF "poll" \notin h.on \/ id \notin DOMAIN h.cycle.seen THEN h
  ELSE [h EXCEPT !.cycle.seen[id] = IF Len(@) < 2 THEN Append(@, st) ELSE @]

\* The cycle executes its send for the session id (at most two are told apart).
HistPollSend(h, id) ==
  IF "poll" \notin h.on \/ id \notin DOMAIN h.cycle.emits THEN h
  ELSE [h EXCEPT !.cycle.emits[id] = IF @ < 2 THEN @ + 1 ELSE @]

\* The cycle is over.
HistPollEnd(h) ==
  IF "poll" \notin h.on THEN h ELSE [h EXCEPT !.cycle.done = TRUE]

\* History of a notification for p handled at the current time.  A burst is
\* a run of handled notifications each less than debounceDelay after the
\* one before; notes[b] is 1 when burst b has one notification, 2 when more,
\* burstLast[b] the time of its last one, emits[b] the number of events its
\* timers' callbacks have emitted, pend the paths notified since their last
\* event.
HistHandle(h, p) ==
  IF "bursts" \notin h.on THEN h
  ELSE LET new == h.lastAt = <<>> \/ now - h.lastAt[1] >= debounceDelay
           b == IF new THEN h.burst + 1 ELSE h.burst IN
       [h EXCEPT !.burst = b,
                 !.lastAt = <<now>>,
                 !.burstLast = IF new THEN Append(@, now) ELSE [@ EXCEPT ![b] = now],
                 !.emits = IF new THEN Append(@, 0) ELSE @,
                 !.notes = IF new THEN Append(@, 1) ELSE [@ EXCEPT ![b] = 2],
                 !.timerBurst = b,
                 !.handled = @ \cup {p},
                 !.pend = @ \cup {p}]

\* History of the armed timer firing, and of its being stopped.
HistFire(h) ==
  IF "bursts" \notin h.on THEN h
  ELSE [h EXCEPT !.firedBurst = Append(@, h.timerBurst), !.timerBurst = 0]
HistStop(h) ==
  IF "bursts" \notin h.on THEN h ELSE [h EXCEPT !.timerBurst = 0]

\* History of the i-th started callback taking mu (returning at once or not).
HistCbRun(h, i, returns) ==
  IF "bursts" \notin h.on THEN h
  ELSE [h EXCEPT !.firedBurst = RemoveAt(@, i),
                 !.cbBurst = IF returns THEN @ ELSE h.firedBurst[i]]

\* History of the running callback's send of an event of type t for sid
\* ("skip": it returns without sending).
HistCbSend(h, t, sid) ==
  IF "bursts" \notin h.on THEN h
  ELSE IF t = "skip" THEN [h EXCEPT !.cbBurst = 0]
  ELSE [h EXCEPT !.cbBurst = 0,
                 !.emits = [@ EXCEPT ![h.cbBurst] = @ + 1],
                 !.early = @ \/ now < h.burstLast[h.cbBurst] + debounceDelay,
                 !.pend = {q \in @ : extractID(q) # sid}]

\* History of a producer's send on a channel holding ch, of capacity cap:
\* who found the channel full is recorded.
\* The stream history: log[w] are the events that entered the outbound
\* channel of watcher w, in order; heldNo[w] is the position in log[w] of the
\* event w's forwarding goroutine holds; out are the watcher and position of
\* the events that entered the merged channel, in order.
HistStream == [NoHist EXCEPT !.on = {"stream"}]
HistEmit(h, w, ch, cap, e) ==
  IF "stream" \in h.on /\ Len(ch) < cap THEN [h EXCEPT !.log[w] = Append(@, e)] ELSE h
HistRecv(h, w, ch) ==
  IF "stream" \in h.on THEN [h EXCEPT !.heldNo[w] = Len(h.log[w]) - Len(ch) + 1] ELSE h
HistForward(h, w, ch, cap) ==
  IF "stream" \in h.on /\ Len(ch) < cap
  THEN [h EXCEPT !.out = Append(@, [w |-> w, n |-> h.heldNo[w]])]
  ELSE h

HistDrop(h, who, ch, cap) ==
  IF "drops" \in h.on /\ Len(ch) >= cap THEN [h EXCEPT !.drops = @ \cup {who}] ELSE h

(***************************************************************************)
(* pollLoop and pollColdSessions.                                          *)
(***************************************************************************)
\* pollTicker delivers a tick (its channel buffers one) until Close stops it.
PollTickerFire ==
  /\ Alive
  /\ ~pollDone
  /\ ~pollTick
  /\ pollTick' = TRUE
  /\ UNCHANGED <<pollPc, toCheck, pollCur, twVars, envVars, demotePc, wlVars, closePc, mgrVars, panicked, ghostVars>>

\* pollLoop receives the tick; the first critical section of
\* pollColdSessions collects the checkInfo of every session not hot.
PollBegin ==
  /\ Alive
  /\ pollPc = "idle"
  /\ pollTick
  /\ pollTick' = FALSE
  /\ toCheck' = {[id |-> id, path |-> sessions[id].Path, prev |-> sessions[id].ModTime,
                  size |-> sessions[id].FileSize] : id \in DOMAIN sessions \ Range(hotIDs)}
  /\ pollPc' = "loop"
  /\ hist' = HistHealBegin(HistPollBegin(hist, sessions, hotIDs), sessions, hotIDs)
  /\ UNCHANGED <<pollCur, twVars, envVars, demotePc, wlVars, closePc, mgrVars, panicked, detVars>>

PollStatMtimeOnly ==
  /\ Alive
  /\ pollPc = "loop"
  /\ \E c \in toCheck :
       LET st == Stat(c.path) IN
       /\ toCheck' = toCheck \ {c}
       /\ hist' = HistPollStat(hist, c.id, st)
       /\ IF st.exists /\ st.mtime > c.prev
          THEN pollCur' = <<[c |-> c, stat |-> st]>> /\ pollPc' = "update"
          ELSE UNCHANGED <<pollCur, pollPc>>
  /\ UNCHANGED <<pollTick, twVars, envVars, demotePc, wlVars, closePc, mgrVars, panicked, detVars>>

\* PollStat as it would be if a session whose file cannot be stat'ed were
\* forgotten.
PollStatForgets ==
  /\ Alive
  /\ pollPc = "loop"
  /\ \E c \in toCheck :
       LET st == Stat(c.path) IN
       /\ toCheck' = toCheck \ {c}
       /\ hist' = HistPollStat(hist, c.id, st)
       /\ sessions' = IF st.exists THEN sessions
                      ELSE [id \in DOMAIN sessions \ {c.id} |-> sessions[id]]
       /\ IF st.exists /\ (st.mtime > c.prev \/ st.size # c.size)
          THEN pollCur' = <<[c |-> c, stat |-> st]>> /\ pollPc' = "update"
          ELSE UNCHANGED <<pollCur, pollPc>>
  /\ UNCHANGED <<pollTick, tierVars, events, chanVars, envVars, demotePc, wlVars, closePc, mgrVars, panicked, detVars>>

\* The stat of the next checkInfo, outside the lock: a failed stat and an
\* unchanged file go on to the next one.
PollStat ==
  /\ Alive
  /\ pollPc = "loop"
  /\ \E c \in toCheck :
       LET st == Stat(c.path) IN
       /\ toCheck' = toCheck \ {c}
       /\ hist' = HistHealStat(HistPollStat(hist, c.id, st), c.id, st,
                                st.mtime > c.prev \/ st.size # c.size, events)
       /\ IF st.exists /\ (st.mtime > c.prev \/ st.size # c.size)
          THEN pollCur' = <<[c |-> c, stat |-> st]>> /\ pollPc' = "update"
          ELSE UNCHANGED <<pollCur, pollPc>>
  /\ UNCHANGED <<pollTick, twVars, envVars, demotePc, wlVars, closePc, mgrVars, panicked, detVars>>

\* The cycle ends when every checkInfo was handled.
PollEnd ==
  /\ Alive
  /\ pollPc = "loop"
  /\ toCheck = {}
  /\ pollPc' = "idle"
  /\ hist' = HistPollEnd(hist)
  /\ UNCHANGED <<pollTick, toCheck, pollCur, twVars, envVars, demotePc, wlVars, closePc, mgrVars, panicked, detVars>>

\* The second critical section: the cached mtime and size are refreshed.
PollUpdate ==
  /\ Alive
  /\ pollPc = "update"
  /\ LET c == pollCur[1].c
         st == pollCur[1].stat IN
     sessions' = IF c.id \in DOMAIN sessions
                 THEN [sessions EXCEPT ![c.id].ModTime = st.mtime, ![c.id].FileSize = st.size]
                 ELSE sessions
  /\ pollPc' = "send"
  /\ UNCHANGED <<pollTick, toCheck, pollCur, tierVars, events, chanVars>>
  /\ UNCHANGED <<envVars, demotePc, wlVars, closePc, mgrVars, panicked, ghostVars>>

\* A send that makes room in a full channel by discarding its oldest event:
\* not what the select below does.
SendEvictingOldest(ch, isClosed, cap, e) ==
  IF isClosed THEN <<ch, TRUE>>
  ELSE IF Len(ch) < cap THEN <<Append(ch, e), FALSE>>
  ELSE <<Append(Tail(ch), e), FALSE>>

\* A select { case ch <- e: default: } on a buffered channel: a panic when
\* the channel is closed, the event enqueued when there is room, dropped
\* otherwise.  The result is <<content, panics>>.
TrySend(ch, isClosed, cap, e) ==
  IF isClosed THEN <<ch, TRUE>>
  ELSE IF Len(ch) < cap THEN <<Append(ch, e), FALSE>>
  ELSE <<ch, FALSE>>

\* The non-blocking send of the SessionUpdated event, outside the lock.
PollSend ==
  /\ Alive
  /\ pollPc = "send"
  /\ LET r == TrySend(events, eventsClosed, EventsCap, Event("SessionUpdated", pollCur[1].c.id)) IN
     /\ events' = r[1]
     /\ panicked' = IF r[2] THEN panicked \cup {"poller"} ELSE panicked
     /\ pollPc' = IF r[2] THEN "exited" ELSE "loop"
     /\ hist' = IF r[2] THEN hist
                ELSE HistEmit(HistHealSend(HistPollSend(HistDrop(hist, "poller", events, EventsCap),
                                                        pollCur[1].c.id),
                                           pollCur[1].c.id, events),
                              "tw", events, EventsCap, Event("SessionUpdated", pollCur[1].c.id))
  /\ pollCur' = <<>>
  /\ UNCHANGED <<pollTick, toCheck, sessions, tierVars, chanVars>>
  /\ UNCHANGED <<envVars, demotePc, wlVars, closePc, mgrVars, detVars>>

\* pollLoop's exit on the done signal.
PollExit ==
  /\ Alive
  /\ pollPc = "idle"
  /\ pollDone
  /\ pollPc' = "exited"
  /\ UNCHANGED <<pollTick, toCheck, pollCur, twVars, envVars, demotePc, wlVars, closePc, mgrVars, panicked, ghostVars>>

\* The reader of the watcher's outbound channel takes the first event.
ConsumeEvent ==
  /\ Alive
  /\ events # <<>>
  /\ events' = Tail(events)
  /\ UNCHANGED <<sessions, tierVars, chanVars, envVars, pollVars, demotePc, wlVars, closePc, mgrVars, panicked, ghostVars>>

(***************************************************************************)
(* fsnotify and watchLoop.                                                 *)
(***************************************************************************)
\* watchLoop's filter: the files it cares about.
Matches(ev) == ~(filePattern # "" /\ Ext(ev.Name) # filePattern)

\* watchLoop receives a notification for a file it does not care about.
LoopSkip ==
  /\ Alive
  /\ loopPc = "run"
  /\ fsEvents # <<>>
  /\ ~Matches(Head(fsEvents))
  /\ fsEvents' = Tail(fsEvents)
  /\ UNCHANGED <<loopPc, lastPath, timer, wlClosed, fired, cbVars, twVars, envVars, pollVars, demotePc, closePc, mgrVars, panicked, ghostVars>>

\* A timer that is left running when one is armed already: not what
\* watchLoop does.
KeepTimer(t, op) ==
  IF t # <<>> THEN t ELSE <<[deadline |-> now + debounceDelay, op |-> op]>>

\* debounceTimer.Stop() and time.AfterFunc(debounceDelay, ...): whatever
\* timer t was armed, the one armed now is due a full delay from now and
\* captures the notification's op.
ResetTimer(t, op) ==
  <<[deadline |-> now + debounceDelay, op |-> op]>>

\* watchLoop receives a notification it cares about and, holding mu (which
\* no running callback holds), records the path, stops the armed timer and
\* arms a new one capturing the event.
LoopHandle ==
  /\ Alive
  /\ loopPc = "run"
  /\ fsEvents # <<>>
  /\ Matches(Head(fsEvents))
  /\ cbPc = "none"
  /\ lastPath' = <<Head(fsEvents).Name>>
  /\ timer' = ResetTimer(timer, Head(fsEvents).Op)
  /\ fsEvents' = Tail(fsEvents)
  /\ hist' = HistHandle(hist, Head(fsEvents).Name)
  /\ UNCHANGED <<loopPc, wlClosed, fired, cbVars, twVars, envVars, pollVars, demotePc, closePc, mgrVars, panicked, detVars>>

\* watchLoop returns when the watcher's channels are closed; its deferred
\* function takes mu, sets closed and stops the armed timer.
LoopExit ==
  /\ Alive
  /\ loopPc = "run"
  /\ ~watcherOpen
  /\ cbPc = "none"
  /\ loopPc' = "exited"
  /\ wlClosed' = TRUE
  /\ timer' = <<>>
  /\ hist' = HistStop(hist)
  /\ UNCHANGED <<fsEvents, lastPath, fired, cbVars, twVars, envVars, pollVars, demotePc, closePc, mgrVars, panicked, detVars>>

\* The armed timer reaches its deadline: the runtime starts the callback in
\* a goroutine of its own; Stop no longer reaches it.
TimerFire ==
  /\ Alive
  /\ timer # <<>>
  /\ now >= timer[1].deadline
  /\ fired' = Append(fired, timer[1].op)
  /\ timer' = <<>>
  /\ hist' = HistFire(hist)
  /\ UNCHANGED <<fsEvents, loopPc, lastPath, wlClosed, cbVars, twVars, envVars, pollVars, demotePc, closePc, mgrVars, panicked, detVars>>

\* A started callback takes mu; it returns at once when watchLoop has
\* exited, and otherwise, under tw.mu, extracts the session ID from lastPath
\* and refreshes a known session's mtime and size from a stat.
CbRun ==
  /\ Alive
  /\ cbPc = "none"
  /\ \E i \in 1..Len(fired) :
       /\ fired' = RemoveAt(fired, i)
       /\ hist' = IF wlClosed THEN HistCbRun(hist, i, wlClosed)
                  ELSE HistSeen(HistCbRun(hist, i, wlClosed), extractID(lastPath[1]), now)
       /\ IF wlClosed
          THEN UNCHANGED <<cbPc, cbOp, cbSid, sessions>>
          ELSE LET sessionID == extractID(lastPath[1])
                   st == Stat(lastPath[1]) IN
               /\ cbPc' = "send"
               /\ cbOp' = fired[i]
               /\ cbSid' = sessionID
               /\ sessions' = IF sessionID \in DOMAIN sessions /\ st.exists
                              THEN [sessions EXCEPT ![sessionID].ModTime = st.mtime,
                                                    ![sessionID].FileSize = st.size]
                              ELSE sessions
  /\ UNCHANGED <<fsEvents, loopPc, lastPath, timer, wlClosed, tierVars, events, chanVars>>
  /\ UNCHANGED <<envVars, pollVars, demotePc, closePc, mgrVars, panicked, detVars>>

EventTypeRemoveAsUpdate(op) ==
  IF "Create" \in op THEN "SessionCreated"
  ELSE IF "Write" \in op THEN "MessageAdded"
  ELSE "SessionUpdated"

\* The callback's switch on capturedEvent.Op: the event type, or "skip" for
\* a Remove.
EventTypeOf(op) ==
  IF "Create" \in op THEN "SessionCreated"
  ELSE IF "Write" \in op THEN "MessageAdded"
  ELSE IF "Remove" \in op THEN "skip"
  ELSE "SessionUpdated"

\* The callback's non-blocking send, after tw.mu is released and with mu
\* still held; a Remove returns without sending.
CbSend ==
  /\ Alive
  /\ cbPc = "send"
  /\ LET t == EventTypeOf(cbOp)
         r == IF t = "skip" THEN <<events, FALSE>>
              ELSE TrySend(events, eventsClosed, EventsCap, Event(t, cbSid)) IN
     /\ events' = r[1]
     /\ panicked' = IF r[2] THEN panicked \cup {"callback"} ELSE panicked
     /\ hist' = IF r[2] THEN hist
                ELSE IF t = "skip" THEN HistCbSend(hist, t, cbSid)
                ELSE HistEmit(HistDrop(HistCbSend(hist, t, cbSid), "callback", events, EventsCap),
                              "tw", events, EventsCap, Event(t, cbSid))
  /\ cbPc' = "none"
  /\ cbOp' = {}
  /\ cbSid' = "none"
  /\ UNCHANGED <<fsEvents, loopPc, lastPath, timer, wlClosed, fired, sessions, tierVars, chanVars>>
  /\ UNCHANGED <<envVars, pollVars, demotePc, closePc, mgrVars, detVars>>

(***************************************************************************)
(* TieredWatcher.Close, called by c.                                       *)
(***************************************************************************)
\* The critical section: a closed watcher returns nil, an open one is
\* marked closed.
CloseBeginUnchecked(c) ==
  /\ Alive
  /\ closePc[c] = "idle"
  /\ closed' = TRUE
  /\ closePc' = [closePc EXCEPT ![c] = "stop"]
  /\ UNCHANGED <<eventsClosed, pollDone, watcherOpen, fsEvents, panicked, sessions, tierVars, events, envVars, pollVars, demotePc, loopPc, lastPath, timer, wlClosed, fired, cbVars, mgrVars, ghostVars>>

CloseBegin(c) ==
  /\ Alive
  /\ closePc[c] = "idle"
  /\ closed' = TRUE
  /\ closePc' = [closePc EXCEPT ![c] = IF closed THEN "done" ELSE "stop"]
  /\ UNCHANGED <<eventsClosed, pollDone, watcherOpen, fsEvents, panicked, sessions, tierVars, events, envVars, pollVars, demotePc, loopPc, lastPath, timer, wlClosed, fired, cbVars, mgrVars, ghostVars>>

\* pollTicker.Stop() and close(tw.pollDone).
CloseStop(c) ==
  /\ Alive
  /\ closePc[c] = "stop"
  /\ pollDone' = TRUE
  /\ panicked' = IF pollDone THEN panicked \cup {"close"} ELSE panicked
  /\ closePc' = [closePc EXCEPT ![c] = "watcher"]
  /\ UNCHANGED <<eventsClosed, closed, watcherOpen, fsEvents, sessions, tierVars, events, envVars, pollVars, demotePc, loopPc, lastPath, timer, wlClosed, fired, cbVars, mgrVars, ghostVars>>

\* tw.watcher.Close(): the notification channels are closed.
CloseWatcher(c) ==
  /\ Alive
  /\ closePc[c] = "watcher"
  /\ watcherOpen' = FALSE
  /\ fsEvents' = <<>>
  /\ closePc' = [closePc EXCEPT ![c] = "events"]
  /\ UNCHANGED <<eventsClosed, closed, pollDone, panicked, sessions, tierVars, events, envVars, pollVars, demotePc, loopPc, lastPath, timer, wlClosed, fired, cbVars, mgrVars, ghostVars>>

\* close(tw.events).
CloseEvents(c) ==
  /\ Alive
  /\ closePc[c] = "events"
  /\ eventsClosed' = TRUE
  /\ panicked' = IF eventsClosed THEN panicked \cup {"close"} ELSE panicked
  /\ closePc' = [closePc EXCEPT ![c] = "done"]
  /\ UNCHANGED <<closed, pollDone, watcherOpen, fsEvents, sessions, tierVars, events, envVars, pollVars, demotePc, loopPc, lastPath, timer, wlClosed, fired, cbVars, mgrVars, ghostVars>>


(***************************************************************************)
(* Manager: AddWatcher's forwarding goroutine and Close.                   *)
(***************************************************************************)
\* AddWatcher(adapterID, tw, ch): nothing on a closed manager; otherwise the
\* watcher replaces the map's entry for adapterID, its closer is appended and
\* its forwarding goroutine starts.  Each watcher is handed over once.
AddWatcher(adapterID, w) ==
  /\ Alive
  /\ ~SeqContains(closers, w)
  /\ IF mClosed
     THEN UNCHANGED <<watchers, closers, fwdPc, peer>>
     ELSE /\ watchers' = [watchers EXCEPT ![adapterID] = w]
          /\ closers' = Append(closers, w)
          /\ fwdPc' = IF w = "tw" THEN "recv" ELSE fwdPc
          /\ peer' = IF w = "peer" THEN [peer EXCEPT !.fwd = "recv"] ELSE peer
  /\ UNCHANGED <<mClosed, mTodo, mEvents, mEventsClosed, fwdEvt, mClosePc>>
  /\ UNCHANGED <<twVars, envVars, pollVars, demotePc, wlVars, closePc, panicked, ghostVars>>

\* The second watcher's poller or a callback of it emits the event e: the
\* same non-blocking send on its outbound channel.
PeerEmit(e) ==
  /\ Alive
  /\ ~peer.closed
  /\ peer.emitted < PeerEmits
  /\ LET r == TrySend(peer.events, peer.eventsClosed, EventsCap, e) IN
     /\ peer' = [peer EXCEPT !.events = r[1], !.emitted = @ + 1]
     /\ hist' = HistEmit(hist, "peer", peer.events, EventsCap, e)
  /\ UNCHANGED <<mClosed, watchers, closers, mTodo, mEvents, mEventsClosed, fwdPc, fwdEvt, mClosePc>>
  /\ UNCHANGED <<twVars, envVars, pollVars, demotePc, wlVars, closePc, panicked, detVars>>

\* The second watcher's forwarding goroutine: the receive, the test of
\* m.closed and the non-blocking send on the merged channel.
PeerFwdRecv ==
  /\ Alive
  /\ peer.fwd = "recv"
  /\ peer.events # <<>>
  /\ peer' = [peer EXCEPT !.evt = <<Head(peer.events)>>, !.events = Tail(@), !.fwd = "check"]
  /\ hist' = HistRecv(hist, "peer", peer.events)
  /\ UNCHANGED <<mClosed, watchers, closers, mTodo, mEvents, mEventsClosed, fwdPc, fwdEvt, mClosePc>>
  /\ UNCHANGED <<twVars, envVars, pollVars, demotePc, wlVars, closePc, panicked, detVars>>

PeerFwdCheck ==
  /\ Alive
  /\ peer.fwd = "check"
  /\ peer' = [peer EXCEPT !.fwd = IF mClosed THEN "exited" ELSE "send",
                          !.evt = IF mClosed THEN <<>> ELSE @]
  /\ UNCHANGED <<mClosed, watchers, closers, mTodo, mEvents, mEventsClosed, fwdPc, fwdEvt, mClosePc>>
  /\ UNCHANGED <<twVars, envVars, pollVars, demotePc, wlVars, closePc, panicked, ghostVars>>

PeerFwdSend ==
  /\ Alive
  /\ peer.fwd = "send"
  /\ LET r == TrySend(mEvents, mEventsClosed, MergedCap, peer.evt[1]) IN
     /\ mEvents' = r[1]
     /\ panicked' = IF r[2] THEN panicked \cup {"forwarder"} ELSE panicked
     /\ peer' = [peer EXCEPT !.fwd = IF r[2] THEN "exited" ELSE "recv", !.evt = <<>>]
     /\ hist' = IF r[2] THEN hist
                ELSE HistForward(HistDrop(hist, "forwarder", mEvents, MergedCap), "peer", mEvents, MergedCap)
  /\ UNCHANGED <<mClosed, watchers, closers, mTodo, mEventsClosed, fwdPc, fwdEvt, mClosePc>>
  /\ UNCHANGED <<twVars, envVars, pollVars, demotePc, wlVars, closePc, detVars>>

\* The second watcher's forwarding goroutine leaves its range loop when the
\* watcher's channel is closed and drained.
PeerFwdRangeEnd ==
  /\ Alive
  /\ peer.fwd = "recv"
  /\ peer.events = <<>>
  /\ peer.eventsClosed
  /\ peer' = [peer EXCEPT !.fwd = "exited"]
  /\ UNCHANGED <<mClosed, watchers, closers, mTodo, mEvents, mEventsClosed, fwdPc, fwdEvt, mClosePc>>
  /\ UNCHANGED <<twVars, envVars, pollVars, demotePc, wlVars, closePc, panicked, ghostVars>>

\* A receive that leaves the event in the watcher's channel: not what the
\* range loop does.
FwdRecvPeek ==
  /\ Alive
  /\ fwdPc = "recv"
  /\ events # <<>>
  /\ fwdEvt' = <<Head(events)>>
  /\ fwdPc' = "check"
  /\ hist' = HistRecv(hist, "tw", events)
  /\ UNCHANGED <<mClosed, regVars, mEvents, mEventsClosed, mClosePc>>
  /\ UNCHANGED <<twVars, envVars, pollVars, demotePc, wlVars, closePc, panicked, detVars>>

\* for evt := range ch: the goroutine receives the next event of the
\* watcher's channel.
FwdRecv ==
  /\ Alive
  /\ fwdPc = "recv"
  /\ events # <<>>
  /\ fwdEvt' = <<Head(events)>>
  /\ events' = Tail(events)
  /\ fwdPc' = "check"
  /\ hist' = HistRecv(hist, "tw", events)
  /\ UNCHANGED <<mClosed, regVars, mEvents, mEventsClosed, mClosePc>>
  /\ UNCHANGED <<sessions, tierVars, chanVars, envVars, pollVars, demotePc, wlVars, closePc, panicked, detVars>>

\* The range loop ends when the watcher's channel is closed and drained.
FwdRangeEnd ==
  /\ Alive
  /\ fwdPc = "recv"
  /\ events = <<>>
  /\ eventsClosed
  /\ fwdPc' = "exited"
  /\ UNCHANGED <<mClosed, regVars, mEvents, mEventsClosed, fwdEvt, mClosePc>>
  /\ UNCHANGED <<twVars, envVars, pollVars, demotePc, wlVars, closePc, panicked, ghostVars>>

\* The goroutine reads m.closed under m.mu and returns when it is set.
FwdCheck ==
  /\ Alive
  /\ fwdPc = "check"
  /\ fwdPc' = IF mClosed THEN "exited" ELSE "send"
  /\ fwdEvt' = IF mClosed THEN <<>> ELSE fwdEvt
  /\ UNCHANGED <<mClosed, regVars, mEvents, mEventsClosed, mClosePc>>
  /\ UNCHANGED <<twVars, envVars, pollVars, demotePc, wlVars, closePc, panicked, ghostVars>>

\* The non-blocking send on the merged channel, with m.mu released.
FwdSend ==
  /\ Alive
  /\ fwdPc = "send"
  /\ LET r == TrySend(mEvents, mEventsClosed, MergedCap, fwdEvt[1]) IN
     /\ mEvents' = r[1]
     /\ panicked' = IF r[2] THEN panicked \cup {"forwarder"} ELSE panicked
     /\ fwdPc' = IF r[2] THEN "exited" ELSE "recv"
     /\ hist' = IF r[2] THEN hist
                ELSE HistForward(HistDrop(hist, "forwarder", mEvents, MergedCap), "tw", mEvents, MergedCap)
  /\ fwdEvt' = <<>>
  /\ UNCHANGED <<mClosed, regVars, mEventsClosed, mClosePc>>
  /\ UNCHANGED <<twVars, envVars, pollVars, demotePc, wlVars, closePc, detVars>>

\* The watchers the map holds, as a list.
MapClosers ==
  LET ws == {watchers[a] : a \in AdapterIDs} \ {"none"} IN
  IF ws = {} THEN <<>>
  ELSE IF ws = Watchers THEN <<"tw", "peer">>
  ELSE <<CHOOSE w \in ws : TRUE>>

MgrCloseBeginFromMap(c) ==
  /\ Alive
  /\ mClosePc[c] = "idle"
  /\ mClosed' = TRUE
  /\ mClosePc' = [mClosePc EXCEPT ![c] = IF mClosed THEN "done" ELSE "closers"]
  /\ mTodo' = [mTodo EXCEPT ![c] = IF mClosed THEN <<>> ELSE MapClosers]
  /\ UNCHANGED <<watchers, closers, peer, mEvents, mEventsClosed, fwdPc, fwdEvt>>
  /\ UNCHANGED <<twVars, envVars, pollVars, demotePc, wlVars, closePc, panicked, ghostVars>>

\* Manager.Close's critical section: a closed manager returns nil, an open
\* one is marked closed and its closers are taken.
MgrCloseBegin(c) ==
  /\ Alive
  /\ mClosePc[c] = "idle"
  /\ mClosed' = TRUE
  /\ mClosePc' = [mClosePc EXCEPT ![c] = IF mClosed THEN "done" ELSE "closers"]
  /\ mTodo' = [mTodo EXCEPT ![c] = IF mClosed THEN <<>> ELSE closers]
  /\ UNCHANGED <<watchers, closers, peer, mEvents, mEventsClosed, fwdPc, fwdEvt>>
  /\ UNCHANGED <<twVars, envVars, pollVars, demotePc, wlVars, closePc, panicked, ghostVars>>

\* for _, c := range closers { c.Close() }: one step of the Close of the
\* modelled watcher, run by the caller of Manager.Close.
MgrCloseWatcher(c) ==
  /\ mClosePc[c] = "closers"
  /\ mTodo[c] # <<>>
  /\ Head(mTodo[c]) = "tw"
  /\ \/ CloseBegin(c)
     \/ CloseStop(c)
     \/ CloseWatcher(c)
     \/ CloseEvents(c)

\* The same for the second watcher: Close's critical section, then (its
\* ticker and notification handle are not modelled) close(tw.events).
MgrClosePeer(c) ==
  /\ Alive
  /\ mClosePc[c] = "closers"
  /\ mTodo[c] # <<>>
  /\ Head(mTodo[c]) = "peer"
  /\ \/ /\ closePc[c] = "idle"
        /\ peer' = [peer EXCEPT !.closed = TRUE]
        /\ closePc' = [closePc EXCEPT ![c] = IF peer.closed THEN "done" ELSE "peerEvents"]
        /\ UNCHANGED panicked
     \/ /\ closePc[c] = "peerEvents"
        /\ peer' = [peer EXCEPT !.eventsClosed = TRUE]
        /\ panicked' = IF peer.eventsClosed THEN panicked \cup {"close"} ELSE panicked
        /\ closePc' = [closePc EXCEPT ![c] = "done"]
  /\ UNCHANGED <<mClosed, watchers, closers, mTodo, mEvents, mEventsClosed, fwdPc, fwdEvt, mClosePc>>
  /\ UNCHANGED <<twVars, envVars, pollVars, demotePc, wlVars, ghostVars>>

\* c.Close() has returned: the loop goes on to the next closer.
MgrCloseNext(c) ==
  /\ Alive
  /\ mClosePc[c] = "closers"
  /\ mTodo[c] # <<>>
  /\ closePc[c] = "done"
  /\ mTodo' = [mTodo EXCEPT ![c] = Tail(mTodo[c])]
  /\ closePc' = [closePc EXCEPT ![c] = "idle"]
  /\ UNCHANGED <<mClosed, watchers, closers, peer, mEvents, mEventsClosed, fwdPc, fwdEvt, mClosePc>>
  /\ UNCHANGED <<twVars, envVars, pollVars, demotePc, wlVars, panicked, ghostVars>>

\* The loop over the closers is over: every closer's Close has returned.
MgrCloseClosersDone(c) ==
  /\ Alive
  /\ mClosePc[c] = "closers"
  /\ mTodo[c] = <<>>
  /\ mClosePc' = [mClosePc EXCEPT ![c] = "events"]
  /\ UNCHANGED <<mClosed, regVars, mEvents, mEventsClosed, fwdPc, fwdEvt>>
  /\ UNCHANGED <<twVars, envVars, pollVars, demotePc, wlVars, closePc, panicked, ghostVars>>

\* close(m.events).
MgrCloseEvents(c) ==
  /\ Alive
  /\ mClosePc[c] = "events"
  /\ mEventsClosed' = TRUE
  /\ panicked' = IF mEventsClosed THEN panicked \cup {"close"} ELSE panicked
  /\ mClosePc' = [mClosePc EXCEPT ![c] = "done"]
  /\ UNCHANGED <<mClosed, regVars, mEvents, fwdPc, fwdEvt>>
  /\ UNCHANGED <<twVars, envVars, pollVars, demotePc, wlVars, closePc, ghostVars>>

\* The reader of the merged channel takes the first event.
ConsumeMerged ==
  /\ Alive
  /\ mEvents # <<>>
  /\ mEvents' = Tail(mEvents)
  /\ UNCHANGED <<mClosed, regVars, mEventsClosed, fwdPc, fwdEvt, mClosePc>>
  /\ UNCHANGED <<twVars, envVars, pollVars, demotePc, wlVars, closePc, panicked, ghostVars>>

(***************************************************************************)
(* The status classifiers (agent_session.go).  A file is a record of its   *)
(* directory, its name (prefix, stem, extension), its mtime and its        *)
(* content: the lines of a JSONL session file, or the JSON document of a   *)
(* thread file.  Directories and working directories are sequences of path *)
(* components.  det holds the files on disk and the classifier's result.   *)
(***************************************************************************)
StatusActive == "Active"
StatusThinking == "Thinking"
StatusWaiting == "Waiting"
StatusDone == "Done"
\* WorktreeStatus(0), returned where no status was determined.
StatusZero == "Zero"

\* A (WorktreeStatus, bool) result.
Res(status, ok) == [status |-> status, ok |-> ok]

\* The lines of a session file: a blank line, a line that is not JSON, and
\* JSON entries with their type and message.content blocks.
BlankLine == [line |-> "blank", type |-> "", hasContent |-> FALSE, content |-> <<>>]
GarbageLine == [line |-> "garbage", type |-> "", hasContent |-> FALSE, content |-> <<>>]
Entry(type) == [line |-> "json", type |-> type, hasContent |-> FALSE, content |-> <<>>]
Asst(content) == [line |-> "json", type |-> "assistant", hasContent |-> TRUE, content |-> content]
Text(text) == [type |-> "text", text |-> text]
ToolUse == [type |-> "tool_use", text |-> ""]

\* strings.TrimSpace on the texts the model writes: "" and " " are all white
\* space.
TrimSpace(text) == IF text \in {"", " "} THEN "" ELSE text

\* A test that takes a file modified exactly threshold ago for a recent
\* one: not what isFileRecentlyModified does.
isFileRecentlyModifiedInclusive(f, threshold) == now - f.mtime <= threshold

\* time.Since(info.ModTime()) < threshold, for a file that exists.
isFileRecentlyModified(f, threshold) == now - f.mtime < threshold

\* isPlaceholderAssistant: the entry's content is a list of nothing but
\* text blocks of white space (an empty list is one).
isPlaceholderAssistant(entry) ==
  /\ entry.hasContent
  /\ \A i \in 1..Len(entry.content) :
       entry.content[i].type = "text" /\ TrimSpace(entry.content[i].text) = ""

\* hasToolUse: the entry's content has a tool_use block.
hasToolUse(entry) ==
  /\ entry.hasContent
  /\ \E i \in 1..Len(entry.content) : entry.content[i].type = "tool_use"

\* getClaudeSessionStatus's loop, from the last line back to the first: the
\* first user or assistant entry met decides, every other line is skipped.
RECURSIVE ClaudeScan(_, _)
ClaudeScan(lines, i) ==
  IF i = 0 THEN Res(StatusZero, FALSE)
  ELSE IF lines[i].line # "json" THEN ClaudeScan(lines, i - 1)
  ELSE IF lines[i].type = "user" THEN Res(StatusActive, TRUE)
  ELSE IF lines[i].type = "assistant"
       THEN IF isPlaceholderAssistant(lines[i]) THEN Res(StatusThinking, TRUE)
            ELSE IF hasToolUse(lines[i]) THEN Res(StatusWaiting, TRUE)
            ELSE Res(StatusDone, TRUE)
  ELSE ClaudeScan(lines, i - 1)

\* getClaudeSessionStatus(path): nothing when readTailLines fails, else the
\* scan of the lines it returned.
getClaudeSessionStatus(f) ==
  IF ~f.readable THEN Res(StatusZero, FALSE)
  ELSE ClaudeScan(f.lines, Len(f.lines))

\* The orders sort.Slice can leave a set of files in, newest first.
RECURSIVE NewestFirst(_)
NewestFirst(fs) ==
  IF fs = {} THEN {<<>>}
  ELSE UNION {{<<x>> \o r : r \in NewestFirst(fs \ {x})} :
                x \in {y \in fs : \A z \in fs : ~(z.mtime > y.mtime)}}

\* findRecentJSONLFiles(dir, excludePrefix): the .jsonl files of dir whose
\* name does not start with excludePrefix, by mtime descending.
findRecentJSONLFiles(files, dir, excludePrefix) ==
  NewestFirst({f \in files : /\ f.dir = dir
                             /\ f.ext = ".jsonl"
                             /\ ~(excludePrefix # "" /\ f.prefix = excludePrefix)})

\* A status that takes no account of the mtime threshold below the
\* staleness ceiling: not what subagentStatus does.
subagentStatusCeilingOnly(files, dir, mtimeThreshold) ==
  LET subs == {f \in files : f.dir = dir /\ f.ext = ".jsonl"} IN
  IF subs = {} THEN Res(StatusZero, FALSE)
  ELSE LET mostRecent == CHOOSE f \in subs : \A g \in subs : f.mtime >= g.mtime IN
       IF ~isFileRecentlyModified(mostRecent, subagentMaxStaleness) THEN Res(StatusZero, FALSE)
       ELSE IF ~getClaudeSessionStatus(mostRecent).ok THEN Res(StatusZero, FALSE)
       ELSE Res(StatusActive, TRUE)

\* subagentStatus(dir, mtimeThreshold): the most recently modified .jsonl
\* file of dir decides; nothing when it is older than subagentMaxStaleness
\* or has no user/assistant entry.
subagentStatus(files, dir, mtimeThreshold) ==
  LET subs == {f \in files : f.dir = dir /\ f.ext = ".jsonl"} IN
  IF subs = {} THEN Res(StatusZero, FALSE)
  ELSE LET mostRecent == CHOOSE f \in subs : \A g \in subs : f.mtime >= g.mtime
           r == getClaudeSessionStatus(mostRecent)
           freshMtime == isFileRecentlyModified(mostRecent, mtimeThreshold) IN
       IF ~isFileRecentlyModified(mostRecent, subagentMaxStaleness) THEN Res(StatusZero, FALSE)
       ELSE IF ~r.ok THEN Res(StatusZero, FALSE)
       ELSE IF r.status = StatusActive
            THEN IF freshMtime THEN Res(StatusActive, TRUE) ELSE Res(StatusThinking, TRUE)
       ELSE IF r.status = StatusThinking THEN Res(StatusThinking, TRUE)
       ELSE IF freshMtime THEN Res(StatusActive, TRUE)
       ELSE Res(StatusZero, FALSE)

\* The project directory of the working directory, and the sub-agent
\* directory of a session file.
ProjectDir == <<"projects", "wt">>
SubagentsDir(f) == ProjectDir \o <<f.stem, "subagents">>

\* A loop that answers Active for a fresh file before it reads it: not what
\* detectClaudeSessionStatus does.
RECURSIVE ClaudeLoopMtimeFirst(_, _, _)
ClaudeLoopMtimeFirst(files, sessionFiles, i) ==
  IF i > Len(sessionFiles) THEN Res(StatusZero, FALSE)
  ELSE LET f == sessionFiles[i]
           r == getClaudeSessionStatus(f)
           sub == subagentStatus(files, SubagentsDir(f), claudeActivityThreshold) IN
       IF isFileRecentlyModified(f, claudeActivityThreshold) THEN Res(StatusActive, TRUE)
       ELSE IF ~r.ok THEN ClaudeLoopMtimeFirst(files, sessionFiles, i + 1)
       ELSE IF r.status = StatusActive THEN Res(StatusThinking, TRUE)
       ELSE IF r.status = StatusThinking THEN Res(StatusThinking, TRUE)
       ELSE IF sub.ok THEN sub
       ELSE r

\* detectClaudeSessionStatus's loop over the candidates from the i-th on:
\* the content is parsed first, a file without user/assistant entry is
\* skipped, and the mtime only tells Active from Thinking (last entry user)
\* or from the sub-agents' and the content's status (real assistant entry).
RECURSIVE ClaudeLoop(_, _, _)
ClaudeLoop(files, sessionFiles, i) ==
  IF i > Len(sessionFiles) THEN Res(StatusZero, FALSE)
  ELSE LET f == sessionFiles[i]
           r == getClaudeSessionStatus(f)
           sub == subagentStatus(files, SubagentsDir(f), claudeActivityThreshold) IN
       IF ~r.ok THEN ClaudeLoop(files, sessionFiles, i + 1)
       ELSE IF r.status = StatusActive
            THEN IF isFileRecentlyModified(f, claudeActivityThreshold)
                 THEN Res(StatusActive, TRUE)
                 ELSE Res(StatusThinking, TRUE)
       ELSE IF r.status = StatusThinking THEN Res(StatusThinking, TRUE)
       ELSE IF isFileRecentlyModified(f, claudeActivityThreshold) THEN Res(StatusActive, TRUE)
       ELSE IF sub.ok THEN sub
       ELSE r

\* A loop that asks the sub-agents before it looks at the parent's mtime:
\* not what detectClaudeSessionStatus does.
RECURSIVE ClaudeLoopSubFirst(_, _, _)
ClaudeLoopSubFirst(files, sessionFiles, i) ==
  IF i > Len(sessionFiles) THEN Res(StatusZero, FALSE)
  ELSE LET f == sessionFiles[i]
           r == getClaudeSessionStatus(f)
           sub == subagentStatus(files, SubagentsDir(f), claudeActivityThreshold) IN
       IF ~r.ok THEN ClaudeLoopSubFirst(files, sessionFiles, i + 1)
       ELSE IF sub.ok THEN sub
       ELSE IF r.status = StatusActive
            THEN IF isFileRecentlyModified(f, claudeActivityThreshold)
                 THEN Res(StatusActive, TRUE)
                 ELSE Res(StatusThinking, TRUE)
       ELSE IF r.status = StatusThinking THEN Res(StatusThinking, TRUE)
       ELSE IF isFileRecentlyModified(f, claudeActivityThreshold) THEN Res(StatusActive, TRUE)
       ELSE r

\* The classifier with the sub-agents-first loop: not
\* detectClaudeSessionStatus.
detectClaudeSubFirst(files, sessionFiles) ==
  IF Len(sessionFiles) = 0 THEN Res(StatusZero, FALSE)
  ELSE ClaudeLoopSubFirst(files, sessionFiles, 1)

\* A loop that gives up at the first candidate without user/assistant
\* entry: not what detectClaudeSessionStatus does.
detectClaudeNewestOnly(files, sessionFiles) ==
  IF Len(sessionFiles) = 0 THEN Res(StatusZero, FALSE)
  ELSE IF ~getClaudeSessionStatus(sessionFiles[1]).ok THEN Res(StatusZero, FALSE)
  ELSE ClaudeLoop(files, sessionFiles, 1)

\* The classifier with the mtime-first loop: not detectClaudeSessionStatus.
detectClaudeMtimeFirst(files, sessionFiles) ==
  IF Len(sessionFiles) = 0 THEN Res(StatusZero, FALSE)
  ELSE ClaudeLoopMtimeFirst(files, sessionFiles, 1)

\* detectClaudeSessionStatus, given the candidates as findRecentJSONLFiles
\* returned them.
detectClaudeSessionStatus(files, sessionFiles) ==
  IF Len(sessionFiles) = 0 THEN Res(StatusZero, FALSE)
  ELSE ClaudeLoop(files, sessionFiles, 1)

\* cwdMatches: cwd is worktreePath or under it.
cwdMatches(cwd, worktreePath) ==
  /\ Len(cwd) >= Len(worktreePath)
  /\ SubSeq(cwd, 1, Len(worktreePath)) = worktreePath

\* getAmpThreadStatus: nothing for a thread that does not parse, has no
\* env.initial or no tree matching the working directory; otherwise the
\* role of the last user/assistant message decides, and a thread without
\* such a message is found with the zero status.
getAmpThreadStatus(t, worktreePath) ==
  IF ~t.valid \/ ~t.env THEN Res(StatusZero, FALSE)
  ELSE IF ~\E tree \in t.trees : cwdMatches(tree, worktreePath) THEN Res(StatusZero, FALSE)
  ELSE LET known == {i \in 1..Len(t.roles) : t.roles[i] \in {"user", "assistant"}}
           lastRole == IF known = {} THEN ""
                       ELSE t.roles[CHOOSE i \in known : \A j \in known : j <= i] IN
       IF lastRole = "user" THEN Res(StatusActive, TRUE)
       ELSE IF lastRole = "assistant" THEN Res(StatusWaiting, TRUE)
       ELSE Res(StatusZero, TRUE)

\* findAmpThreadForPath's second pass: the first candidate, newest first,
\* that getAmpThreadStatus accepts, with its status.
RECURSIVE AmpLoop(_, _, _)
AmpLoop(candidates, worktreePath, i) ==
  IF i > Len(candidates) THEN [file |-> <<>>, status |-> StatusZero, ok |-> FALSE]
  ELSE LET r == getAmpThreadStatus(candidates[i], worktreePath) IN
       IF r.ok THEN [file |-> <<candidates[i]>>, status |-> r.status, ok |-> TRUE]
       ELSE AmpLoop(candidates, worktreePath, i + 1)

\* The candidates of findAmpThreadForPath's first pass, in an order its
\* sort can leave them in: the T-*.json files of the threads directory.
AmpCandidates(threads) ==
  NewestFirst({t \in threads : t.prefix = "T-" /\ t.ext = ".json"})

\* detectAmpSessionStatus: Active for a thread modified within
\* sessionActivityThreshold, else the status parsed from it.
detectAmpSessionStatus(candidates, worktreePath) ==
  LET found == AmpLoop(candidates, worktreePath, 1) IN
  IF ~found.ok \/ found.file = <<>> THEN Res(StatusZero, FALSE)
  ELSE IF isFileRecentlyModified(found.file[1], sessionActivityThreshold)
       THEN Res(StatusActive, TRUE)
  ELSE Res(found.status, TRUE)

\* detectAgentSessionStatus(Claude, worktreePath) is called.
DetectClaude ==
  /\ Alive
  /\ det.agentType = "claude"
  /\ det.out = <<>>
  /\ \E sessionFiles \in findRecentJSONLFiles(det.files, ProjectDir, "agent-") :
       det' = [det EXCEPT !.out = <<detectClaudeSessionStatus(det.files, sessionFiles)>>]
  /\ UNCHANGED <<twVars, envVars, pollVars, demotePc, wlVars, closePc, mgrVars, panicked, hist, codex, mStats, lk>>

\* detectAgentSessionStatus(Amp, worktreePath) is called.
DetectAmp ==
  /\ Alive
  /\ det.agentType = "amp"
  /\ det.out = <<>>
  /\ \E candidates \in AmpCandidates(det.threads) :
       det' = [det EXCEPT !.out = <<detectAmpSessionStatus(candidates, det.worktreePath)>>]
  /\ UNCHANGED <<twVars, envVars, pollVars, demotePc, wlVars, closePc, mgrVars, panicked, hist, codex, mStats, lk>>

(***************************************************************************)
(* Initial states.                                                         *)
(***************************************************************************)
\* The clock at construction: later than the zero time, and later than the
\* session files that were written before the watcher was built.
StartTime == ZeroTime + 5

\* A watcher as New returns it: no session, nothing hot, the root directory
\* watched, the three goroutines started.
InitWatcher ==
  /\ sessions = <<>>
  /\ hotIDs = <<>>
  /\ watchDirs = {rootDir}
  /\ events = <<>>
  /\ eventsClosed = FALSE
  /\ closed = FALSE
  /\ pollDone = FALSE
  /\ watcherOpen = TRUE
  /\ pollPc = "idle"
  /\ pollTick = FALSE
  /\ toCheck = {}
  /\ pollCur = <<>>
  /\ demotePc = "idle"
  /\ fsEvents = <<>>
  /\ loopPc = "run"
  /\ lastPath = <<>>
  /\ timer = <<>>
  /\ wlClosed = FALSE
  /\ fired = <<>>
  /\ cbPc = "none"
  /\ cbOp = {}
  /\ cbSid = "none"
  /\ closePc = [c \in Callers |-> "idle"]
  /\ panicked = {}

\* A manager as NewManager returns it.
InitManager ==
  /\ mClosed = FALSE
  /\ watchers = [a \in AdapterIDs |-> "none"]
  /\ closers = <<>>
  /\ mTodo = [c \in Callers |-> <<>>]
  /\ peer = [closed |-> FALSE, eventsClosed |-> FALSE, fwd |-> "none",
             events |-> <<>>, evt |-> <<>>, emitted |-> 0,
             sessions |-> <<>>, hotIDs |-> <<>>, watchDirs |-> {rootDir}]
  /\ mEvents = <<>>
  /\ mEventsClosed = FALSE
  /\ fwdPc = "none"
  /\ fwdEvt = <<>>
  /\ mClosePc = [c \in Callers |-> "idle"]

\* The files of DOMAIN mt exist, each last written at its mt, before the start.
InitDisk(mt) ==
  /\ now = StartTime
  /\ disk = [p \in AllPaths |-> IF p \in DOMAIN mt THEN [exists |-> TRUE, mtime |-> mt[p], size |-> 0]
                                ELSE NoFile]

\* No Codex session file, empty caches, nobody looking anything up.
\* Manager.Stats has not been called.
NoStats == <<>>

NoCodex == [files |-> <<>>, cwdCache |-> <<>>, others |-> <<>>, pathCache |-> <<>>, g |-> <<>>]

\* tw.mu is free and none of its users is in a call.
LockUsers == {"RegisterSession", "RegisterSessions", "PromoteToHot", "callback", "poller"}
NoLock == [mu |-> "none", todo |-> [t \in LockUsers |-> <<>>]]

\* No classifier input.
NoDet == [agentType |-> "none", files |-> {}, threads |-> {}, worktreePath |-> <<>>, out |-> <<>>]

(***************************************************************************)
(* Spec: the tiers of one watcher.  Four session files, each in its own    *)
(* directory, written at distinct times before the start; registration one *)
(* by one and in batches, promotion, the demotion sweep, and the clock     *)
(* advancing in steps of half the inactivity timeout.  The OS may refuse   *)
(* to watch the directory d4.                                              *)
(***************************************************************************)
TierPaths == {P1, P2, P3, P4}
TierMtimes == (P1 :> ZeroTime + 1) @@ (P2 :> ZeroTime + 2) @@ (P3 :> ZeroTime + 3) @@ (P4 :> ZeroTime + 4)
TierBatches == {{P1, P2, P3}, {P4}, {P2, P3, P4}, {P1, P2, P3, P4}}
TierStep == HotInactivityTimeout \div 2
TierHorizon == StartTime + TierTicks * TierStep
AddOutcomes(dir) == IF dir = "d4" THEN BOOLEAN ELSE {TRUE}

\* What RegisterSessions' caller passes for the files of ps: the scan's
\* stat of each file, in some order.
RECURSIVE ScanBatch(_)
ScanBatch(ps) ==
  IF ps = {} THEN <<>>
  ELSE LET p == CHOOSE q \in ps : TRUE IN
       <<[ID |-> extractID(p), Path |-> p, ModTime |-> Stat(p).mtime, FileSize |-> Stat(p).size]>>
         \o ScanBatch(ps \ {p})

Init ==
  /\ InitWatcher
  /\ InitManager
  /\ InitDisk(TierMtimes)
  /\ hist = NoHist
  /\ det = NoDet
  /\ codex = NoCodex
  /\ mStats = NoStats
  /\ lk = NoLock

TierRegister ==
  /\ \E p \in TierPaths : RegisterSession(extractID(p), p)

TierRegisterBatch ==
  /\ \E ps \in TierBatches : \E d4OK \in AddOutcomes("d4") :
       RegisterSessions(ScanBatch(ps), {Dir(p) : p \in TierPaths} \ (IF d4OK THEN {} ELSE {"d4"}))

TierPromote ==
  /\ \E p \in TierPaths : \E addOK \in AddOutcomes(Dir(p)) : PromoteToHot(extractID(p), addOK)

TierSweep ==
  /\ demoteInactive

TierTick ==
  /\ now + TierStep <= TierHorizon
  /\ Tick(TierStep)

Next ==
  \/ TierRegister
  \/ TierRegisterBatch
  \/ TierPromote
  \/ TierSweep
  \/ TierTick

Spec == Init /\ [][Next]_vars

(***************************************************************************)
(* Properties of the tiers (checked under Spec).                           *)
(***************************************************************************)
\* C1: in every reachable state of a watcher the hot list holds at most
\* MaxHotSessions sessions.
C1_HotListBounded == Len(hotIDs) <= MaxHotSessions

\* C7: the directories under live notification never number more than the
\* hot capacity plus the root directory, however many sessions there are.
C7_WatchedDirsBounded == Cardinality(watchDirs) <= MaxHotSessions + 1

\* C28: the directory of every hot session is in the watcher's set of
\* watched directories, also after the OS has refused to watch a directory
\* at a promotion.
C28_HotDirsWatched ==
  \A i \in 1..Len(hotIDs) : Dir(sessions[hotIDs[i]].Path) \in watchDirs

\* C39: the hot list holds no identifier twice and only identifiers of
\* registered sessions, so that the registered sessions are the hot ones
\* and the cold ones, and the cold count of Stats (registered minus hot) is
\* the number of cold sessions and never negative.
C39_HotListIsASet ==
  /\ \A i \in 1..Len(hotIDs) : \A j \in 1..Len(hotIDs) : hotIDs[i] = hotIDs[j] => i = j
  /\ Range(hotIDs) \subseteq DOMAIN sessions
  /\ Cardinality(DOMAIN sessions) - Len(hotIDs) = Cardinality(DOMAIN sessions \ Range(hotIDs))
  /\ Cardinality(DOMAIN sessions) - Len(hotIDs) >= 0

\* A session that was hot already has been promoted again, at a later time
\* than the other hot sessions, and there are cold sessions.
C39_Witness ==
  /\ Len(hotIDs) >= 2
  /\ now > StartTime
  /\ sessions[hotIDs[1]].LastHot = now
  /\ \A i \in 2..Len(hotIDs) : sessions[hotIDs[i]].LastHot < now
  /\ DOMAIN sessions \ Range(hotIDs) # {}

\* This step is PromoteToHot(id) on a registered session.
Promotes(id) ==
  /\ id \in DOMAIN sessions
  /\ \E addOK \in BOOLEAN : PromoteToHot(id, addOK)

\* The sessions that leave the hot list in this step.
Evicted == Range(hotIDs) \ Range(hotIDs')

\* C14: PromoteToHot of a registered cold session into a hot list that holds
\* MaxHotSessions sessions evicts exactly one session, which stays
\* registered and is a hot session with the least LastHot (never the one
\* promoted, whose LastHot is the time of the call); the promoted session is
\* hot afterwards.  PromoteToHot of a session that is already hot sets its
\* LastHot to the time of the call and leaves the hot list as it is.
C14_EvictsOldestHot ==
  [][ \A id \in DOMAIN sessions :
        Promotes(id) =>
          /\ sessions'[id].LastHot = now
          /\ SeqContains(hotIDs', id)
          /\ SeqContains(hotIDs, id) => hotIDs' = hotIDs
          /\ (~SeqContains(hotIDs, id) /\ Len(hotIDs) = MaxHotSessions) =>
               /\ Len(hotIDs') = MaxHotSessions
               /\ Cardinality(Evicted) = 1
               /\ \A e \in Evicted :
                    /\ e # id
                    /\ e \in DOMAIN sessions'
                    /\ \A x \in Range(hotIDs) : sessions[e].LastHot <= sessions[x].LastHot
    ]_vars

\* Three sessions are hot and a registered session that was hot before is
\* cold, while the first entry of the hot list became hot again later than
\* the second: the session evicted was not the one that entered first.
C14_Witness ==
  /\ Len(hotIDs) = MaxHotSessions
  /\ sessions[hotIDs[1]].LastHot > sessions[hotIDs[2]].LastHot
  /\ \E e \in DOMAIN sessions :
       /\ ~SeqContains(hotIDs, e)
       /\ sessions[e].LastHot > ZeroTime
       /\ \A x \in Range(hotIDs) : sessions[e].LastHot <= sessions[x].LastHot

(***************************************************************************)
(* SpecBatch: the tiers of one watcher without the sweep: registration one *)
(* by one and in batches and promotion, over a short stretch of time.      *)
(***************************************************************************)
BatchTick ==
  /\ now + TierStep <= StartTime + BatchTicks * TierStep
  /\ Tick(TierStep)

NextBatch ==
  \/ TierRegister
  \/ TierRegisterBatch
  \/ TierPromote
  \/ BatchTick

SpecBatch == Init /\ [][NextBatch]_vars

\* The directories tw.watcher.Add accepts when the OS takes d4 or refuses it.
OkDirs(d4OK) == {Dir(p) : p \in TierPaths} \ (IF d4OK THEN {} ELSE {"d4"})

\* The recorded modification times of the known sessions differ.
DistinctModTimes(s) ==
  \A x, y \in DOMAIN s : x # y => s[x].ModTime # s[y].ModTime

\* The known sessions with fewer than MaxHotSessions sessions modified later.
MostRecent(s) ==
  {id \in DOMAIN s :
     Cardinality({x \in DOMAIN s : s[x].ModTime > s[id].ModTime}) < MaxHotSessions}

\* C16: when RegisterSessions returns, each of the min(3, known) sessions
\* with the latest recorded modification time (distinct times) is in the hot
\* list, its LastHot is the time of the call, and its directory is watched
\* unless the OS refused the watch that was requested for it.
C16_RecentAreHot ==
  [][ \A ps \in TierBatches : \A d4OK \in BOOLEAN :
        (/\ now' = now
         /\ DOMAIN sessions' = DOMAIN sessions \cup {extractID(p) : p \in ps}
         /\ DistinctModTimes(sessions')
         /\ RegisterSessions(ScanBatch(ps), OkDirs(d4OK))) =>
          /\ Cardinality(MostRecent(sessions')) =
               (IF Cardinality(DOMAIN sessions') < MaxHotSessions
                THEN Cardinality(DOMAIN sessions') ELSE MaxHotSessions)
          /\ \A id \in MostRecent(sessions') :
               /\ SeqContains(hotIDs', id)
               /\ sessions'[id].LastHot = now
               /\ Dir(sessions'[id].Path) \in watchDirs' \/ Dir(sessions'[id].Path) \notin OkDirs(d4OK)
    ]_vars

\* Four sessions are known, the three modified last are hot since this
\* instant while a session promoted earlier is hot as well, and the watch of
\* d4 was refused.
C16_Witness ==
  /\ Cardinality(DOMAIN sessions) = 4
  /\ now > StartTime
  /\ \A id \in MostRecent(sessions) : SeqContains(hotIDs, id) /\ sessions[id].LastHot = now
  /\ Len(hotIDs) > MaxHotSessions
  /\ "d4" \notin watchDirs

\* The hot session id became hot later than the sweep's cutoff.
HotSince(id) == sessions[id].LastHot > now - HotInactivityTimeout

\* C17: a sweep at time t leaves hot, in their order, exactly the hot
\* sessions whose LastHot is later than t - HotInactivityTimeout; the others
\* become cold and stay registered; the cold sessions stay cold, and the
\* sessions' data and the watched directories are unchanged.
C17_SweepKeepsRecentlyHot ==
  [][ demoteInactive =>
        /\ hotIDs' = SelectSeq(hotIDs, HotSince)
        /\ \A id \in Range(hotIDs) :
             (now - sessions[id].LastHot > HotInactivityTimeout) =>
               (~SeqContains(hotIDs', id) /\ id \in DOMAIN sessions')
        /\ \A id \in DOMAIN sessions : ~SeqContains(hotIDs, id) => ~SeqContains(hotIDs', id)
        /\ UNCHANGED <<sessions, watchDirs>>
    ]_vars

\* After a sweep: fewer than MaxHotSessions sessions are hot, each of them
\* since less than the timeout, and a session that became hot exactly
\* HotInactivityTimeout ago is cold.
C17_Witness ==
  /\ Len(hotIDs) \in 1..(MaxHotSessions - 1)
  /\ \A id \in Range(hotIDs) : HotSince(id)
  /\ \E e \in DOMAIN sessions :
       /\ ~SeqContains(hotIDs, e)
       /\ sessions[e].LastHot > ZeroTime
       /\ sessions[e].LastHot = now - HotInactivityTimeout

(***************************************************************************)
(* SpecPromote: four or five sessions are registered one by one with       *)
(* RegisterSession, then each is promoted once, every promotion at a later *)
(* time than the one before, with no sweep.                                *)
(***************************************************************************)
PromotePaths == TierPaths \cup {PA}
PromoteHorizon == StartTime + PromoteTicks

InitPromote ==
  /\ InitWatcher
  /\ InitManager
  /\ InitDisk(TierMtimes @@ (PA :> ZeroTime + 1))
  /\ hist = NoHist
  /\ det = NoDet
  /\ codex = NoCodex
  /\ mStats = NoStats
  /\ lk = NoLock

\* No session has been promoted yet.
NonePromoted == \A id \in DOMAIN sessions : sessions[id].LastHot = ZeroTime

\* Every registered session has been promoted.
AllPromoted == \A id \in DOMAIN sessions : sessions[id].LastHot > ZeroTime

PromoteRegister ==
  /\ NonePromoted
  /\ \E p \in PromotePaths :
       /\ extractID(p) \notin DOMAIN sessions
       /\ RegisterSession(extractID(p), p)

PromoteOnce ==
  /\ Cardinality(DOMAIN sessions) > MaxHotSessions
  /\ \E id \in DOMAIN sessions :
       /\ sessions[id].LastHot = ZeroTime
       /\ \A x \in DOMAIN sessions : sessions[x].LastHot < now
       /\ \E addOK \in BOOLEAN : PromoteToHot(id, addOK)

PromoteTick ==
  /\ now < PromoteHorizon
  /\ Tick(1)

NextPromote ==
  \/ PromoteRegister
  \/ PromoteOnce
  \/ PromoteTick

SpecPromote == InitPromote /\ [][NextPromote]_vars

\* The number of registered sessions promoted later than id.
PromotedLater(id) ==
  Cardinality({x \in DOMAIN sessions : sessions[x].LastHot > sessions[id].LastHot})

\* C15: once each of the n > 3 registered sessions has been promoted once,
\* at increasing times, the hot list holds exactly the 3 sessions promoted
\* last, and the n - 3 promoted before them are registered and not hot.
C15_LastThreePromotedHot ==
  (AllPromoted /\ Cardinality(DOMAIN sessions) > MaxHotSessions) =>
    /\ Len(hotIDs) = MaxHotSessions
    /\ Cardinality(Range(hotIDs)) = MaxHotSessions
    /\ \A id \in DOMAIN sessions : SeqContains(hotIDs, id) <=> PromotedLater(id) < MaxHotSessions
    /\ Cardinality(DOMAIN sessions \ Range(hotIDs)) = Cardinality(DOMAIN sessions) - MaxHotSessions

\* Five sessions have each been promoted once.
C15_Witness ==
  /\ AllPromoted
  /\ Cardinality(DOMAIN sessions) = 5

(***************************************************************************)
(* SpecClose: shutdown against the background goroutines.  One session     *)
(* file and one foreign file in the (always watched) root directory; the   *)
(* agent writes them, the poller and the notification consumer report the  *)
(* changes, and two callers may call Close.  The clock advances by the     *)
(* debounce delay, never past an armed timer's deadline.                   *)
(***************************************************************************)
CloseHorizon == StartTime + CloseTicks * debounceDelay

\* The clock advances by d, unless an armed timer is due first.
TimedTick(d, horizon) ==
  /\ now + d <= horizon
  /\ timer # <<>> => now + d <= timer[1].deadline
  /\ Tick(d)

InitClose ==
  /\ InitWatcher
  /\ InitManager
  /\ InitDisk((PA :> ZeroTime + 1))
  /\ hist = NoHist
  /\ det = NoDet
  /\ codex = NoCodex
  /\ mStats = NoStats
  /\ lk = NoLock

NextClose ==
  \/ RegisterSession(extractID(PA), PA)
  \/ WriteFile(PA, TRUE)
  \/ WriteFile(PX, FALSE)
  \/ TimedTick(debounceDelay, CloseHorizon)
  \/ PollTickerFire
  \/ PollBegin
  \/ PollStat
  \/ PollEnd
  \/ PollUpdate
  \/ PollSend
  \/ PollExit
  \/ demoteInactive
  \/ DemoteExit
  \/ LoopSkip
  \/ LoopHandle
  \/ LoopExit
  \/ TimerFire
  \/ CbRun
  \/ CbSend
  \/ \E c \in Callers : CloseBegin(c)
  \/ \E c \in Callers : CloseStop(c)
  \/ \E c \in Callers : CloseWatcher(c)
  \/ \E c \in Callers : CloseEvents(c)

SpecClose == InitClose /\ [][NextClose]_vars

\* C4: no poll cycle and no debounce callback sends on the watcher's
\* outbound channel after Close has closed it (a send that panics).
C4_NoSendOnClosedEvents == panicked \cap {"poller", "callback"} = {}

(***************************************************************************)
(* SpecMgr: a manager with one watcher.  The poller reports the changes of *)
(* one session file, the forwarding goroutine moves the watcher's events   *)
(* to the merged channel, a reader may drain it, and two callers may call  *)
(* Manager.Close.                                                          *)
(***************************************************************************)
NextMgr ==
  \/ RegisterSession(extractID(PA), PA)
  \/ WriteFile(PA, TRUE)
  \/ PollTickerFire
  \/ PollBegin
  \/ PollStat
  \/ PollEnd
  \/ PollUpdate
  \/ PollSend
  \/ PollExit
  \/ AddWatcher("a1", "tw")
  \/ FwdRecv
  \/ FwdRangeEnd
  \/ FwdCheck
  \/ FwdSend
  \/ ConsumeMerged
  \/ \E c \in Callers : MgrCloseBegin(c)
  \/ \E c \in Callers : MgrCloseWatcher(c)
  \/ \E c \in Callers : MgrCloseNext(c)
  \/ \E c \in Callers : MgrCloseClosersDone(c)
  \/ \E c \in Callers : MgrCloseEvents(c)

SpecMgr == InitClose /\ [][NextMgr]_vars

\* C5: no forwarding goroutine sends on the merged channel after
\* Manager.Close has closed it (a send that panics).
C5_NoSendOnClosedMerged == "forwarder" \notin panicked

(***************************************************************************)
(* SpecDebounce: the notification consumer.  Two session files in the      *)
(* (always watched) root directory; the agents write them, watchLoop       *)
(* debounces the notifications, a reader drains the outbound channel.  The *)
(* clock advances by half the debounce delay, never past an armed timer's  *)
(* deadline.                                                               *)
(***************************************************************************)
DebounceStep == debounceDelay \div 2
DebounceHorizon == StartTime + DebounceTicks * DebounceStep

InitDebounce ==
  /\ InitWatcher
  /\ InitManager
  /\ InitDisk((PA :> ZeroTime + 1) @@ (PB :> ZeroTime + 2))
  /\ hist = HistBursts
  /\ det = NoDet
  /\ codex = NoCodex
  /\ mStats = NoStats
  /\ lk = NoLock

NextDebounce ==
  \/ \E p \in {PA, PB} : RegisterSession(extractID(p), p)
  \/ \E p \in {PA, PB} : WriteFile(p, TRUE)
  \/ TimedTick(DebounceStep, DebounceHorizon)
  \/ LoopHandle
  \/ TimerFire
  \/ CbRun
  \/ CbSend
  \/ ConsumeEvent

SpecDebounce == InitDebounce /\ [][NextDebounce]_vars

\* The notification consumer is quiet: no notification waits, no timer is
\* armed, no callback is started or running.
Settled == fsEvents = <<>> /\ timer = <<>> /\ fired = <<>> /\ cbPc = "none"

\* C6: once the consumer is quiet, every path whose notification it handled
\* has had its event emitted, also when notifications for two paths came
\* within the debounce delay of each other.
C6_EventPerSettledPath == Settled => hist.pend = {}

(***************************************************************************)
(* SpecBurst: the notification consumer with one session file.  The agent  *)
(* writes it in bursts and pauses; a reader drains the outbound channel.   *)
(***************************************************************************)
BurstHorizon == StartTime + BurstTicks * DebounceStep

InitBurst ==
  /\ InitWatcher
  /\ InitManager
  /\ InitDisk((PA :> ZeroTime + 1))
  /\ hist = HistBursts
  /\ det = NoDet
  /\ codex = NoCodex
  /\ mStats = NoStats
  /\ lk = NoLock

NextBurst ==
  \/ RegisterSession(extractID(PA), PA)
  \/ WriteFile(PA, TRUE)
  \/ TimedTick(DebounceStep, BurstHorizon)
  \/ LoopHandle
  \/ TimerFire
  \/ CbRun
  \/ CbSend
  \/ ConsumeEvent

SpecBurst == InitBurst /\ [][NextBurst]_vars

\* The callback's critical section for a known session whose file exists
\* leaves the cached mtime and size equal to the stat of that moment.
RefreshedFromStat ==
  (cbPc = "none" /\ cbPc' = "send" /\ cbSid' \in DOMAIN sessions /\ Stat(lastPath[1]).exists)
    => /\ cbSid' = extractID(lastPath[1])
       /\ sessions'[cbSid'].ModTime = Stat(lastPath[1]).mtime
       /\ sessions'[cbSid'].FileSize = Stat(lastPath[1]).size

\* C9: with one session file notified, each burst of notifications (each
\* less than the debounce delay after the one before) has at most one event
\* emitted, for that file's session, not before the burst's last
\* notification plus the delay, and with the cached mtime and size taken
\* from a stat made by the emitting callback.
C9_OneEventPerBurst ==
  [][/\ ~hist'.early
     /\ \A b \in DOMAIN hist'.emits : hist'.emits[b] <= 1
     /\ cbPc' = "send" => cbSid' = extractID(PA)
     /\ RefreshedFromStat]_vars

\* A burst of two notifications for PA alone is over and its one event was
\* emitted, the session's cache holding the size the burst left.
C9_Witness ==
  /\ hist.handled = {PA}
  /\ hist.burst = 1
  /\ hist.notes[1] >= 2
  /\ hist.emits[1] = 1
  /\ Settled
  /\ extractID(PA) \in DOMAIN sessions
  /\ sessions[extractID(PA)].ModTime = disk[PA].mtime
  /\ sessions[extractID(PA)].ModTime > StartTime

(***************************************************************************)
(* SpecFlow: the producers with nobody reading.  One cold session file in  *)
(* the root directory is written; the poller and the debounce callback     *)
(* report it on the watcher's channel, the manager's goroutine forwards    *)
(* to the merged channel, which no one receives from.                      *)
(***************************************************************************)
FlowHorizon == StartTime + FlowTicks * debounceDelay

InitFlow ==
  /\ InitWatcher
  /\ InitManager
  /\ InitDisk((PA :> ZeroTime + 1))
  /\ hist = HistDrops
  /\ det = NoDet
  /\ codex = NoCodex
  /\ mStats = NoStats
  /\ lk = NoLock

NextFlow ==
  \/ RegisterSession(extractID(PA), PA)
  \/ WriteFile(PA, TRUE)
  \/ TimedTick(debounceDelay, FlowHorizon)
  \/ PollTickerFire
  \/ PollBegin
  \/ PollStat
  \/ PollEnd
  \/ PollUpdate
  \/ PollSend
  \/ demoteInactive
  \/ LoopHandle
  \/ TimerFire
  \/ CbRun
  \/ CbSend
  \/ AddWatcher("a1", "tw")
  \/ FwdRecv
  \/ FwdCheck
  \/ FwdSend

\* The scheduler runs every goroutine that can take a step: the poller, the
\* callback and the forwarder are not starved.
FairFlow ==
  /\ WF_vars(PollStat)
  /\ WF_vars(PollEnd)
  /\ WF_vars(PollUpdate)
  /\ WF_vars(PollSend)
  /\ WF_vars(CbSend)
  /\ WF_vars(FwdCheck)
  /\ WF_vars(FwdSend)

SpecFlow == InitFlow /\ [][NextFlow]_vars /\ FairFlow

\* A producer's send that finds its channel full leaves the channel as it
\* was and the producer goes on: the poller to its next file, the callback
\* to its return, the forwarder to its next receive.
DropsWhenFull ==
  /\ (pollPc = "send" /\ pollPc' # "send" /\ Len(events) >= EventsCap)
       => (events' = events /\ pollPc' = "loop")
  /\ (cbPc = "send" /\ cbPc' # "send" /\ Len(events) >= EventsCap)
       => (events' = events /\ cbPc' = "none")
  /\ (fwdPc = "send" /\ fwdPc' # "send" /\ Len(mEvents) >= MergedCap)
       => (mEvents' = mEvents /\ fwdPc' = "recv")

\* C10: a send on a full queue drops the event and never waits: every send
\* and the sweep can be taken whatever the queues hold, and with no reader
\* every poll cycle, callback and forwarding is completed.
C10_EmitNeverBlocks ==
  /\ [][DropsWhenFull]_vars
  /\ [](pollPc = "send" => ENABLED PollSend)
  /\ [](cbPc = "send" => ENABLED CbSend)
  /\ [](fwdPc = "send" => ENABLED FwdSend)
  /\ [](ENABLED demoteInactive)
  /\ (pollPc # "idle") ~> (pollPc = "idle")
  /\ (cbPc = "send") ~> (cbPc = "none")
  /\ (fwdPc \in {"check", "send"}) ~> (fwdPc = "recv")

\* Each producer has dropped an event on a full queue and gone on: the
\* poller ended its cycle, the callback returned, the forwarder waits for
\* the next event with the merged queue still full.
C10_Witness ==
  /\ hist.drops = {"poller", "callback", "forwarder"}
  /\ Len(mEvents) = MergedCap
  /\ pollPc = "idle"
  /\ cbPc = "none"
  /\ fwdPc = "recv"

(***************************************************************************)
(* SpecDetect: the classifiers on the session files of bounded content and *)
(* age.  The initial state draws the agent type and its files; the one     *)
(* step of a behaviour is the classifier's call.                           *)
(***************************************************************************)
\* The ages of the files: below claudeActivityThreshold, equal to it, between it and
\* sessionActivityThreshold, between that and subagentMaxStaleness, above.
Ages == {2000, 5000, 10000, 60000, 200000}
OlderAges == {3000, 20000}
SubAges == {1000, 10000, 60000, 120000, 200000}
OtherSubAge == 250000

\* The contents of a session file.
TailSamples ==
  { <<>>,
    <<GarbageLine>>,
    <<Entry("file-history-snapshot")>>,
    <<Entry("user")>>,
    <<Entry("user"), Entry("file-history-snapshot"), BlankLine>>,
    <<Asst(<<>>)>>,
    <<Entry("user"), Asst(<<Text(" ")>>)>>,
    <<Asst(<<Text("x")>>)>>,
    <<Asst(<<Text("x"), ToolUse>>)>>,
    <<Asst(<<Text("x")>>), Entry("user")>>,
    <<Entry("assistant")>> }
OlderSamples == { <<Entry("file-history-snapshot")>>, <<Entry("user")>>, <<Asst(<<Text("x")>>)>> }
SubSamples ==
  { <<GarbageLine>>, <<Entry("user")>>, <<Asst(<<Text(" ")>>)>>, <<Asst(<<Text("x")>>)>>,
    <<Asst(<<ToolUse>>)>> }

JsonlFile(dir, prefix, stem, age, lines) ==
  [dir |-> dir, prefix |-> prefix, stem |-> stem, ext |-> ".jsonl",
   mtime |-> DetectNow - age, readable |-> TRUE, lines |-> lines]

\* The file f when opening or reading it fails.
Unreadable(f) == [f EXCEPT !.readable = FALSE]

\* The files under the project directory: one session file u1, possibly a
\* second one u2, either of which may be unreadable, possibly one or two
\* sub-agent files of u1, possibly a fresh agent- file next to the session
\* files.
ClaudeInputs ==
  { {u1} \cup u2 \cup subs \cup other :
      u1 \in {JsonlFile(ProjectDir, "", "u1", a, l) : a \in Ages, l \in TailSamples}
             \cup {Unreadable(JsonlFile(ProjectDir, "", "u1", a, <<Entry("user")>>)) : a \in Ages},
      u2 \in {{}} \cup {{JsonlFile(ProjectDir, "", "u2", a, l)} : a \in OlderAges, l \in OlderSamples}
                  \cup {{Unreadable(JsonlFile(ProjectDir, "", "u2", a, <<Entry("user")>>))} : a \in OlderAges},
      subs \in {{}} \cup
               {{JsonlFile(ProjectDir \o <<"u1", "subagents">>, "agent-", "a1", a, l)} \cup old :
                   a \in SubAges, l \in SubSamples,
                   old \in {{}, {JsonlFile(ProjectDir \o <<"u1", "subagents">>, "agent-", "a2",
                                           OtherSubAge, <<Entry("user")>>)}}},
      other \in {{}, {JsonlFile(ProjectDir, "agent-", "a0", 1000, <<Entry("user")>>)}} }

ThreadFile(stem, age, valid, env, trees, roles) ==
  [dir |-> <<"threads">>, prefix |-> "T-", stem |-> stem, ext |-> ".json",
   mtime |-> DetectNow - age, valid |-> valid, env |-> env, trees |-> trees, roles |-> roles]

\* The working directory, and the tree sets of a thread: the working
\* directory, a directory under it, another one.
Worktree == <<"home", "wt">>
TreeSets == {{Worktree}, {<<"home", "wt", "sub">>}, {<<"home", "other">>}, {}}
RoleSamples ==
  { <<>>, <<"system">>, <<"user">>, <<"user", "assistant">>, <<"assistant", "user", "tool">> }

\* The thread files: one thread t1, possibly an older matching one t2.
AmpInputs ==
  { {t1} \cup t2 :
      t1 \in {ThreadFile("t1", a, v, e, tr, r) :
                a \in Ages, v \in BOOLEAN, e \in BOOLEAN, tr \in TreeSets, r \in RoleSamples},
      t2 \in {{}, {ThreadFile("t2", 100000, TRUE, TRUE, {Worktree}, <<"user">>)}} }

InitDetect ==
  /\ InitWatcher
  /\ InitManager
  /\ now = DetectNow
  /\ disk = [p \in AllPaths |-> NoFile]
  /\ hist = NoHist
  /\ codex = NoCodex
  /\ mStats = NoStats
  /\ lk = NoLock
  /\ \/ \E fs \in ClaudeInputs :
          det = [agentType |-> "claude", files |-> fs, threads |-> {},
                 worktreePath |-> Worktree, out |-> <<>>]
     \/ \E ts \in AmpInputs :
          det = [agentType |-> "amp", files |-> {}, threads |-> ts,
                 worktreePath |-> Worktree, out |-> <<>>]

NextDetect ==
  \/ DetectClaude
  \/ DetectAmp

SpecDetect == InitDetect /\ [][NextDetect]_vars

\* The candidates of a Claude call, its newest candidate, the last entry
\* read from a file that is a user or assistant entry (none, or the file
\* cannot be read: <<>>), and whether an
\* entry is an assistant entry with real content.
Candidates == {f \in det.files : f.dir = ProjectDir /\ f.prefix # "agent-"}
Newest == CHOOSE f \in Candidates : \A g \in Candidates : f.mtime >= g.mtime
LastMessage(f) ==
  LET known == {i \in 1..Len(f.lines) : f.lines[i].line = "json" /\ f.lines[i].type \in {"user", "assistant"}} IN
  IF known = {} \/ ~f.readable THEN <<>> ELSE <<f.lines[CHOOSE i \in known : \A j \in known : j <= i]>>
WhitespaceOnly(e) ==
  e.type = "assistant" /\ e.hasContent /\ \A i \in 1..Len(e.content) : e.content[i] \in {Text(""), Text(" ")}
RealAssistant(e) == e.type = "assistant" /\ ~WhitespaceOnly(e)
Age(f) == now - f.mtime
ClaudeDone == det.agentType = "claude" /\ det.out # <<>>
HasToolBlock(e) == \E i \in 1..Len(e.content) : e.content[i].type = "tool_use"
Subs(f) == {g \in det.files : g.dir = SubagentsDir(f)}
NewestSub(f) == CHOOSE g \in Subs(f) : \A h \in Subs(f) : g.mtime >= h.mtime
\* The result the candidates other than the newest give by themselves.
WithoutNewest ==
  LET rest == Candidates \ {Newest} IN
  IF rest = {} THEN Res(StatusZero, FALSE)
  ELSE detectClaudeSessionStatus(det.files, <<CHOOSE f \in rest : TRUE>>)

\* C2 as stated: a newest candidate modified within claudeActivityThreshold
\* gives (Active, true) whatever it contains.
C2_FreshNewestIsActive ==
  (ClaudeDone /\ Age(Newest) < claudeActivityThreshold)
    => det.out[1] = Res(StatusActive, TRUE)

\* C2: the content of a newest candidate modified within
\* claudeActivityThreshold is read first: the result is (Active, true) when
\* its last user/assistant entry is a user entry or an assistant entry with
\* real content, (Thinking, true) when it is a whitespace-only assistant
\* placeholder, and with no such entry the file is skipped: the result is
\* that of the other candidates, (zero, false) when there is none.
C2_FreshNewestByContent ==
  (ClaudeDone /\ Age(Newest) < claudeActivityThreshold)
    => LET m == LastMessage(Newest) IN
       IF m = <<>> THEN det.out[1] = WithoutNewest
       ELSE IF m[1].type = "user" \/ RealAssistant(m[1])
            THEN det.out[1] = Res(StatusActive, TRUE)
       ELSE det.out[1] = Res(StatusThinking, TRUE)

\* A fresh newest candidate ending in a whitespace-only placeholder was
\* classified Thinking.
C2_Witness ==
  /\ ClaudeDone
  /\ Age(Newest) < claudeActivityThreshold
  /\ LastMessage(Newest) # <<>>
  /\ WhitespaceOnly(LastMessage(Newest)[1])
  /\ det.out[1] = Res(StatusThinking, TRUE)

\* The newest candidate ends in an assistant entry with real content, is
\* not modified within claudeActivityThreshold, and has sub-agent files.
StaleParent ==
  /\ ClaudeDone
  /\ LastMessage(Newest) # <<>>
  /\ RealAssistant(LastMessage(Newest)[1])
  /\ Age(Newest) >= claudeActivityThreshold
  /\ Subs(Newest) # {}
ParentOwn == Res(IF HasToolBlock(LastMessage(Newest)[1]) THEN StatusWaiting ELSE StatusDone, TRUE)

\* C3 as stated: with the most recent sub-agent file modified 10 s ago, a
\* stale parent's result is (Active, true).
C3_SubTenSecondsIsActive ==
  (StaleParent /\ Age(NewestSub(Newest)) = 10000)
    => det.out[1] = Res(StatusActive, TRUE)

\* C3: a stale parent whose most recent sub-agent file is younger than
\* subagentMaxStaleness: when that file is modified within
\* claudeActivityThreshold, the result is (Active, true) for a last entry
\* that is user or real assistant content; when it is older (10 s, say), the
\* result is (Thinking, true) for a last user entry; a placeholder gives
\* (Thinking, true) at either age; in every other case the parent's own
\* Waiting or Done stands.
C3_SubOverridesByContent ==
  (StaleParent /\ Age(NewestSub(Newest)) < subagentMaxStaleness)
    => LET sub == NewestSub(Newest)
           m == LastMessage(sub)
           fresh == Age(sub) < claudeActivityThreshold IN
       IF m = <<>> THEN det.out[1] = ParentOwn
       ELSE IF WhitespaceOnly(m[1]) THEN det.out[1] = Res(StatusThinking, TRUE)
       ELSE IF m[1].type = "user"
            THEN det.out[1] = Res(IF fresh THEN StatusActive ELSE StatusThinking, TRUE)
       ELSE IF fresh THEN det.out[1] = Res(StatusActive, TRUE)
       ELSE det.out[1] = ParentOwn

\* A stale parent whose most recent sub-agent file, modified 10 s ago, ends
\* in a user entry was classified Thinking.
C3_Witness ==
  /\ StaleParent
  /\ Age(NewestSub(Newest)) = 10000
  /\ LastMessage(NewestSub(Newest)) # <<>>
  /\ LastMessage(NewestSub(Newest))[1].type = "user"
  /\ det.out[1] = Res(StatusThinking, TRUE)

\* C8: a classifier that answers found = true answers one of the four
\* classified states with it.
C8_FoundOnlyWithStatus ==
  (det.out # <<>> /\ det.out[1].ok)
    => det.out[1].status \in {StatusActive, StatusThinking, StatusWaiting, StatusDone}

\* The candidates in which a user or assistant entry was read, the newest
\* of them, the newest of the candidates behind the newest, and the result
\* a candidate gives when it is the only one.
WithRole == {f \in Candidates : LastMessage(f) # <<>>}
NewestWithRole == CHOOSE f \in WithRole : \A g \in WithRole : f.mtime >= g.mtime
SecondNewest ==
  LET rest == Candidates \ {Newest} IN
  CHOOSE f \in rest : \A g \in rest : f.mtime >= g.mtime
ByItself(f) == detectClaudeSessionStatus(det.files, <<f>>)
\* The file ends, for the classifier, in an assistant entry of text with no
\* tool_use block, was not modified within claudeActivityThreshold, and no
\* sub-agent file of its own gives a status.
StaleTextOnly(f) ==
  /\ LastMessage(f) # <<>>
  /\ RealAssistant(LastMessage(f)[1])
  /\ ~HasToolBlock(LastMessage(f)[1])
  /\ Age(f) >= claudeActivityThreshold
  /\ ~subagentStatus(det.files, SubagentsDir(f), claudeActivityThreshold).ok

\* C20: the Claude classifier's result is the classification of the newest
\* candidate in which a user or assistant entry is read; newer candidates
\* without such an entry, or that cannot be read, are passed over; the
\* result is (zero, false) exactly when no candidate has such an entry.  In
\* particular, a newest candidate without user/assistant entry followed by a
\* second-newest one that is stale and ends in a text-only assistant entry
\* gives (Done, true).
C20_NewestWithRoleDecides ==
  ClaudeDone =>
    /\ det.out[1].ok <=> WithRole # {}
    /\ WithRole = {} => det.out[1] = Res(StatusZero, FALSE)
    /\ WithRole # {} => det.out[1] = ByItself(NewestWithRole)
    /\ (/\ Cardinality(Candidates) >= 2
        /\ LastMessage(Newest) = <<>>
        /\ StaleTextOnly(SecondNewest))
         => det.out[1] = Res(StatusDone, TRUE)

\* The newest candidate was read and held no user or assistant entry, the
\* second-newest was stale and ended in a text-only assistant entry, and the
\* result was (Done, true).
C20_Witness ==
  /\ ClaudeDone
  /\ Cardinality(Candidates) = 2
  /\ Newest.readable
  /\ LastMessage(Newest) = <<>>
  /\ StaleTextOnly(SecondNewest)
  /\ det.out[1] = Res(StatusDone, TRUE)

\* What the parent f says of itself, from its last user/assistant entry and
\* its age, and what its sub-agent files say: the most recently modified
\* one, when younger than subagentMaxStaleness, by its last entry and age.
ParentResult(f) ==
  LET m == LastMessage(f)[1]
      fresh == Age(f) < claudeActivityThreshold IN
  IF m.type = "user" THEN Res(IF fresh THEN StatusActive ELSE StatusThinking, TRUE)
  ELSE IF WhitespaceOnly(m) THEN Res(StatusThinking, TRUE)
  ELSE IF fresh THEN Res(StatusActive, TRUE)
  ELSE Res(IF HasToolBlock(m) THEN StatusWaiting ELSE StatusDone, TRUE)
SubResult(f) ==
  IF Subs(f) = {} THEN Res(StatusZero, FALSE)
  ELSE LET s == NewestSub(f)
           m == LastMessage(s)
           fresh == Age(s) < claudeActivityThreshold IN
       IF Age(s) >= subagentMaxStaleness \/ m = <<>> THEN Res(StatusZero, FALSE)
       ELSE IF m[1].type = "user" THEN Res(IF fresh THEN StatusActive ELSE StatusThinking, TRUE)
       ELSE IF WhitespaceOnly(m[1]) THEN Res(StatusThinking, TRUE)
       ELSE IF fresh THEN Res(StatusActive, TRUE)
       ELSE Res(StatusZero, FALSE)

\* C36: the sub-agent files of the deciding parent change the result only
\* when the parent by itself is Waiting or Done (a stale file ending in an
\* assistant entry with real content) and the most recently modified
\* sub-agent file is younger than subagentMaxStaleness and classifies as
\* Active or Thinking: that status is the result.  With no sub-agent file,
\* the newest one at or over the ceiling, unparseable or finished, the
\* parent's Waiting or Done is the result, and a parent that is Active or
\* Thinking by itself is the result whatever the sub-agent files hold.
C36_SubsOverrideOnlyIdleParent ==
  (ClaudeDone /\ WithRole # {}) =>
    LET own == ParentResult(NewestWithRole)
        sub == SubResult(NewestWithRole) IN
    /\ own.status \in {StatusActive, StatusThinking} => det.out[1] = own
    /\ own.status \in {StatusWaiting, StatusDone} =>
          /\ det.out[1] = IF sub.ok THEN sub ELSE own
          /\ det.out[1] # own =>
                /\ Age(NewestSub(NewestWithRole)) < subagentMaxStaleness
                /\ det.out[1].status \in {StatusActive, StatusThinking}

\* A stale parent waiting on a tool_use whose newest sub-agent file ends in
\* a user entry and is exactly subagentMaxStaleness old was classified
\* Waiting.
C36_Witness ==
  /\ ClaudeDone
  /\ WithRole # {}
  /\ ParentResult(NewestWithRole) = Res(StatusWaiting, TRUE)
  /\ Subs(NewestWithRole) # {}
  /\ Age(NewestSub(NewestWithRole)) = subagentMaxStaleness
  /\ LastMessage(NewestSub(NewestWithRole)) # <<>>
  /\ LastMessage(NewestSub(NewestWithRole))[1].type = "user"
  /\ det.out[1] = Res(StatusWaiting, TRUE)

\* A Claude call that found one candidate, readable, with no sub-agent file.
SingleCandidate ==
  /\ ClaudeDone
  /\ Cardinality(Candidates) = 1
  /\ Newest.readable
  /\ Subs(Newest) = {}

MgrClosing(c) == mClosePc[c] \in {"closers", "events"}

\* C11: no caller of Manager.Close is ever left unable to go on to its
\* return, whatever the forwarding goroutine, the poller and the other
\* callers are doing.
C11_CloseNeverStuck ==
  \A c \in Callers :
    MgrClosing(c) =>
      ENABLED (MgrCloseWatcher(c) \/ MgrClosePeer(c) \/ MgrCloseNext(c) \/ MgrCloseClosersDone(c) \/ MgrCloseEvents(c))

(***************************************************************************)
(* SpecShutdown: a manager, two watchers handed to it under either adapter *)
(* ID, and two callers that call TieredWatcher.Close on the modelled       *)
(* watcher and Manager.Close again and again, while the poller and the     *)
(* forwarding goroutines run.                                              *)
(***************************************************************************)
\* A caller outside Manager.Close calls, or goes on with, tw.Close().
CloseCall(c) ==
  /\ mClosePc[c] = "idle"
  /\ \/ CloseBegin(c)
     \/ CloseStop(c)
     \/ CloseWatcher(c)
     \/ CloseEvents(c)

\* tw.Close() has returned to that caller, who may call again.
CloseReturn(c) ==
  /\ Alive
  /\ mClosePc[c] = "idle"
  /\ closePc[c] = "done"
  /\ closePc' = [closePc EXCEPT ![c] = "idle"]
  /\ UNCHANGED <<twVars, envVars, pollVars, demotePc, wlVars, mgrVars, panicked, ghostVars>>

\* A caller that is in no Close calls Manager.Close.
MgrCloseCall(c) ==
  /\ closePc[c] = "idle"
  /\ MgrCloseBegin(c)

\* Manager.Close has returned to that caller, who may call again.
MgrCloseReturn(c) ==
  /\ Alive
  /\ mClosePc[c] = "done"
  /\ mClosePc' = [mClosePc EXCEPT ![c] = "idle"]
  /\ UNCHANGED <<mClosed, regVars, mEvents, mEventsClosed, fwdPc, fwdEvt>>
  /\ UNCHANGED <<twVars, envVars, pollVars, demotePc, wlVars, closePc, panicked, ghostVars>>

NextShutdown ==
  \/ RegisterSession(extractID(PA), PA)
  \/ WriteFile(PA, TRUE)
  \/ PollTickerFire
  \/ PollBegin
  \/ PollStat
  \/ PollEnd
  \/ PollUpdate
  \/ PollSend
  \/ PollExit
  \/ \E a \in AdapterIDs, w \in Watchers : AddWatcher(a, w)
  \/ FwdRecv
  \/ FwdRangeEnd
  \/ FwdCheck
  \/ FwdSend
  \/ PeerFwdRangeEnd
  \/ \E c \in Callers : CloseCall(c)
  \/ \E c \in Callers : CloseReturn(c)
  \/ \E c \in Callers : MgrCloseCall(c)
  \/ \E c \in Callers : MgrCloseWatcher(c)
  \/ \E c \in Callers : MgrClosePeer(c)
  \/ \E c \in Callers : MgrCloseNext(c)
  \/ \E c \in Callers : MgrCloseClosersDone(c)
  \/ \E c \in Callers : MgrCloseEvents(c)
  \/ \E c \in Callers : MgrCloseReturn(c)

SpecShutdown == InitClose /\ [][NextShutdown]_vars

\* The watcher whose Close the caller c is calling or about to call.
CloseTarget(c) ==
  IF mClosePc[c] = "closers" /\ mTodo[c] # <<>> THEN Head(mTodo[c]) ELSE "tw"

\* The caller c enters a watcher's Close in this step, after another call
\* of that watcher's Close has begun.
LaterClose(c) ==
  /\ closePc[c] = "idle"
  /\ closePc'[c] # "idle"
  /\ IF CloseTarget(c) = "peer" THEN peer.closed ELSE closed

\* The caller c enters Manager.Close in this step, after another call of
\* it has begun.
LaterMgrClose(c) ==
  /\ mClosePc[c] = "idle"
  /\ mClosePc'[c] # "idle"
  /\ mClosed

\* C12: however often and however interleaved TieredWatcher.Close and
\* Manager.Close are called, no queue (and no stop channel) is closed a
\* second time, a closed queue stays closed, and every call of a Close that
\* comes after the first goes straight to its return and leaves the poll
\* ticker, the stop channel, the debounce timer, the notification handle
\* and the queues as they are.
C12_CloseOnce ==
  [][ /\ "close" \notin panicked'
      /\ eventsClosed => eventsClosed'
      /\ peer.eventsClosed => peer'.eventsClosed
      /\ mEventsClosed => mEventsClosed'
      /\ \A c \in Callers :
           LaterClose(c) =>
             /\ closePc'[c] = "done"
             /\ UNCHANGED <<pollTick, pollDone, timer, watcherOpen, fsEvents, events, eventsClosed, peer>>
      /\ \A c \in Callers :
           LaterMgrClose(c) =>
             /\ mClosePc'[c] = "done"
             /\ UNCHANGED <<twVars, pollTick, timer, fsEvents, peer, closePc, mEvents, mEventsClosed>>
    ]_vars

\* Both callers have been through Close of the same watcher, one directly
\* and one inside Manager.Close, and its queue is closed.
C12_Witness ==
  /\ Alive
  /\ eventsClosed
  /\ closePc["c1"] = "done" /\ mClosePc["c1"] = "idle"
  /\ closePc["c2"] = "done" /\ mClosePc["c2"] = "closers" /\ CloseTarget("c2") = "tw"

\* The watcher w has been closed: its closed flag is set.
WatcherClosed(w) == IF w = "peer" THEN peer.closed ELSE closed

\* The outbound queue of the watcher w is closed.
QueueClosed(w) == IF w = "peer" THEN peer.eventsClosed ELSE eventsClosed

\* Some caller outside Manager.Close is inside tw.Close().
DirectCloseUnderWay ==
  \E c \in Callers : mClosePc[c] = "idle" /\ closePc[c] \in {"stop", "watcher", "events"}

\* Every watcher whose AddWatcher succeeded has been closed, and its queue is
\* closed unless a Close called on it from outside the manager is still
\* under way.
AddedWatchersClosed ==
  \A w \in Range(closers) :
    /\ WatcherClosed(w)
    /\ QueueClosed(w) \/ (w = "tw" /\ DirectCloseUnderWay)

\* C13: the Manager.Close that shuts the manager down works in order.  Once
\* the manager is marked closed, AddWatcher changes neither the map nor the
\* closers and starts no forwarding goroutine; the caller closes watchers
\* only after the mark; the merged queue is closed only when every watcher
\* whose AddWatcher succeeded is closed, a watcher replaced in the map
\* included; and when that call returns, they and the merged queue are closed.
C13_ShutdownOrder ==
  [][ /\ mClosed =>
           /\ mClosed'
           /\ UNCHANGED <<watchers, closers>>
           /\ fwdPc = "none" => fwdPc' = "none"
           /\ peer.fwd = "none" => peer'.fwd = "none"
      /\ \A c \in Callers : mClosePc'[c] \in {"closers", "events"} => mClosed'
      /\ mEventsClosed' => AddedWatchersClosed'
      /\ \A c \in Callers :
           (mClosePc[c] = "events" /\ mClosePc'[c] = "done") =>
             mEventsClosed' /\ AddedWatchersClosed'
    ]_vars

\* Manager.Close has returned after closing two watchers, of which the map
\* holds only the one added last under the same adapter ID.
C13_Witness ==
  /\ Alive
  /\ Len(closers) = 2
  /\ \E a \in AdapterIDs : watchers = [b \in AdapterIDs |-> IF b = a THEN closers[2] ELSE "none"]
  /\ \E c \in Callers : mClosePc[c] = "done"
  /\ mEventsClosed
  /\ AddedWatchersClosed

(***************************************************************************)
(* SpecPoll: the poller of one watcher with two session files.  The agent  *)
(* writes and removes the files, sessions are registered and promoted, a   *)
(* reader may take events, and the clock advances, all of it also in the   *)
(* middle of a poll cycle.                                                 *)
(***************************************************************************)
PollPaths == {PA, PB}
PollHorizon == StartTime + PollTicks

InitPoll ==
  /\ InitWatcher
  /\ InitManager
  /\ InitDisk((PA :> ZeroTime + 1) @@ (PB :> ZeroTime + 2))
  /\ hist = HistPoll
  /\ det = NoDet
  /\ codex = NoCodex
  /\ mStats = NoStats
  /\ lk = NoLock

PollRegister == \E p \in PollPaths : RegisterSession(extractID(p), p)

PollPromote == \E p \in PollPaths : PromoteToHot(extractID(p), TRUE)

PollWrite == \E grow \in BOOLEAN : WriteFile(PA, grow)

PollRemove == RemoveFile(PA)

PollClock ==
  /\ now < PollHorizon
  /\ Tick(1)

NextPoll ==
  \/ PollRegister
  \/ PollPromote
  \/ PollWrite
  \/ PollRemove
  \/ PollClock
  \/ PollTickerFire
  \/ PollBegin
  \/ PollStat
  \/ PollEnd
  \/ PollUpdate
  \/ PollSend
  \/ ConsumeEvent

SpecPoll == InitPoll /\ [][NextPoll]_vars

\* The stat st shows a file changed against the cached mtime and size prev.
ChangedSince(st, prev) ==
  st.exists /\ (st.mtime > prev.ModTime \/ st.size # prev.FileSize)

\* What a finished poll cycle has done for the sessions known at its start.
CycleResult ==
  hist.cycle.done =>
    \A id \in DOMAIN hist.cycle.prev :
      LET c == hist.cycle IN
      IF id \in c.cold
      THEN /\ Len(c.seen[id]) = 1
           /\ IF ChangedSince(c.seen[id][1], c.prev[id])
              THEN /\ c.emits[id] = 1
                   /\ sessions[id].ModTime = c.seen[id][1].mtime
                   /\ sessions[id].FileSize = c.seen[id][1].size
              ELSE /\ c.emits[id] = 0
                   /\ sessions[id].ModTime = c.prev[id].ModTime
                   /\ sessions[id].FileSize = c.prev[id].FileSize
      ELSE /\ c.seen[id] = <<>>
           /\ c.emits[id] = 0

\* The poller's send in this step puts a SessionUpdated event for the session
\* at hand at the end of the queue, or leaves a full queue as it is.
SendsSessionUpdated ==
  (pollPc = "send" /\ pollPc' # "send") =>
    \/ events' = Append(events, Event("SessionUpdated", pollCur[1].c.id))
    \/ Len(events) >= EventsCap /\ events' = events

\* C18: when a poll cycle is over, every session that was cold when it began
\* has been stat'ed once; if the stat succeeded and showed a later mtime or
\* another size than the cache held, the cycle has executed one send of a
\* SessionUpdated event for it and the cache holds the stat's mtime and size;
\* otherwise (file unchanged, or stat failed) it has sent nothing for it and
\* the cache is as it was.  The sessions hot when the cycle began were not
\* stat'ed and nothing was sent for them.
C18_PollReportsChanges == [][CycleResult' /\ SendsSessionUpdated]_vars

\* A finished cycle in which one session was hot from the start, and a cold
\* one was reported because its size had changed while its mtime had not.
C18_Witness ==
  /\ hist.cycle.done
  /\ hist.cycle.hot # {}
  /\ \E id \in hist.cycle.cold :
       /\ hist.cycle.emits[id] = 1
       /\ hist.cycle.seen[id][1].mtime = hist.cycle.prev[id].ModTime

(***************************************************************************)
(* SpecHeal: SpecPoll's watcher, with the history of the events the poller *)
(* dropped.                                                                *)
(***************************************************************************)
InitHeal ==
  /\ InitWatcher
  /\ InitManager
  /\ InitDisk((PA :> ZeroTime + 1) @@ (PB :> ZeroTime + 2))
  /\ hist = HistHeal
  /\ det = NoDet
  /\ codex = NoCodex
  /\ mStats = NoStats
  /\ lk = NoLock

SpecHeal == InitHeal /\ [][NextPoll]_vars

\* C29: a poll cycle that begins while a cold session's last detected
\* change is still unreported (the poller's send found the queue full), and
\* that stats the session's file while the queue has room, sends an event
\* for the session, also when the file has not changed again: no such
\* cycle passes the session by.
C29_PollHeals == hist.missed = {}

(***************************************************************************)
(* SpecOps: the notification consumer with one session file and one file   *)
(* of another extension in the watched root directory.  The session file   *)
(* is created, written, chmod'ed and removed; the other file is written.   *)
(***************************************************************************)
OpsHorizon == StartTime + OpsTicks * DebounceStep

InitOps ==
  /\ InitWatcher
  /\ InitManager
  /\ InitDisk(<<>>)
  /\ hist = NoHist
  /\ det = NoDet
  /\ codex = NoCodex
  /\ mStats = NoStats
  /\ lk = NoLock

NextOps ==
  \/ RegisterSession(extractID(PA), PA)
  \/ WriteFile(PA, TRUE)
  \/ ChmodFile(PA)
  \/ RemoveFile(PA)
  \/ WriteFile(PX, FALSE)
  \/ TimedTick(DebounceStep, OpsHorizon)
  \/ LoopSkip
  \/ LoopHandle
  \/ TimerFire
  \/ CbRun
  \/ CbSend
  \/ ConsumeEvent

SpecOps == InitOps /\ [][NextOps]_vars

\* watchLoop takes the first notification off the queue in this step.
Receives == loopPc = "run" /\ fsEvents # <<>> /\ fsEvents' = Tail(fsEvents)

\* The callback's send in this step puts an event of type t for its session
\* at the end of the queue, or leaves a full queue as it is.
CallbackSends(t) ==
  \/ events' = Append(events, Event(t, cbSid))
  \/ Len(events) >= EventsCap /\ events' = events

\* C19: a received notification for a file of another extension than the
\* pattern changes neither the armed timer nor anything else of the
\* consumer and no event results; one for a matching file arms the timer
\* with its operation, which the fired timer hands to its callback; and the
\* callback sends SessionCreated for a Create, MessageAdded for a Write,
\* nothing for a Remove and SessionUpdated for any other operation.
C19_TypeByOperation ==
  [][ /\ Receives =>
           IF Ext(Head(fsEvents).Name) # filePattern
           THEN UNCHANGED <<timer, lastPath, fired, cbVars, events, sessions>>
           ELSE timer' = <<[deadline |-> now + debounceDelay, op |-> Head(fsEvents).Op]>>
      /\ Len(fired') > Len(fired) => (timer # <<>> /\ fired' = Append(fired, timer[1].op))
      /\ (cbPc = "none" /\ cbPc' = "send") => \E i \in 1..Len(fired) : cbOp' = fired[i] /\ fired' = RemoveAt(fired, i)
      /\ (cbPc = "send" /\ cbPc' = "none") =>
           /\ cbOp = {"Create"} => CallbackSends("SessionCreated")
           /\ cbOp = {"Write"} => CallbackSends("MessageAdded")
           /\ cbOp = {"Remove"} => events' = events
           /\ cbOp = {"Chmod"} => CallbackSends("SessionUpdated")
           /\ cbOp \in {{"Create"}, {"Write"}, {"Remove"}, {"Chmod"}}
    ]_vars

\* The queue holds the event of a chmod, a debounce is pending, and a
\* notification for the file of the other extension waits to be received.
C19_Witness ==
  /\ Event("SessionUpdated", extractID(PA)) \in Range(events)
  /\ timer # <<>>
  /\ fsEvents # <<>>
  /\ Head(fsEvents).Name = PX

(***************************************************************************)
(* The Codex session locator and its two process-wide caches               *)
(* (agent_session.go): the TTL path cache, one entry per (sessions         *)
(* directory, working directory), and the bounded CWD cache, one entry per *)
(* session file.  codex.files is the sessions directory, codex.g the local *)
(* variables of each goroutine that runs findCodexSessionForPath for the   *)
(* working directory Worktree.  Every lock/unlock pair, every stat and     *)
(* every read of a file is one step.  A file's ver counts its writes and   *)
(* is carried along with what was stat'ed or read from it: it is history,  *)
(* the code does not see it.                                               *)
(***************************************************************************)
codexSessionCacheTTL == 5000
codexCwdCacheMaxEntries == 2048

\* The goroutines that classify Codex sessions.
Detectors == {"d1", "d2"}
\* The rollout files of the sessions directory, in the order WalkDir visits
\* them.
CodexWalkOrder == <<"r1", "r2">>
CodexPaths == Range(CodexWalkOrder)
\* The cwd of a file's first session_meta record: the working directory,
\* another directory, or none (no such record, or an empty cwd).
NoCwd == <<>>
CodexCwds == {Worktree, <<"home", "other">>, NoCwd}
NoCodexFile == [exists |-> FALSE, mtime |-> ZeroTime, size |-> 0, cwd |-> NoCwd, ver |-> 0]

\* A goroutine outside findCodexSessionForPath; t is the time
\* cachedCodexSessionPath took, entry the cache entry the lookup at hand
\* read, ret what the last call returned and whether that
\* came from the path cache.
IdleG(ret) ==
  [pc |-> "idle", t |-> ZeroTime, entry |-> <<>>, todo |-> <<>>, info |-> <<>>, cwd |-> NoCwd, cwdVer |-> 0,
   bestPath |-> "", bestModTime |-> 0, ret |-> ret]
Returned(path, cached) == <<[path |-> path, cached |-> cached]>>

codexFrame == <<twVars, disk, pollVars, demotePc, wlVars, closePc, mgrVars, panicked, hist, det, mStats, lk>>

\* A comparison that takes an entry of the same size for current whatever
\* its mtime: not what cachedCodexSessionCWD does.
cwdCacheHitSizeOnly(entry, info) == entry.size = info.size

\* cachedCodexSessionCWD's test of an entry against the FileInfo.
cwdCacheHit(entry, info) == entry.size = info.size /\ entry.modTime = info.mtime

\* An expiry test that takes an entry for expired at its expiry instant: not
\* what cachedCodexSessionPath does.
pathEntryExpiredAt(t, entry) == t >= entry.expiresAt

\* cachedCodexSessionPath's test: now.After(entry.expiresAt).
pathEntryExpired(t, entry) == t > entry.expiresAt

\* The CWD cache's entries for the files of CodexPaths are codex.cwdCache;
\* codex.others are its entries for rollout files that are no longer in the
\* directory, which only pruning removes: groups of n entries with the same
\* lastAccess, by ascending lastAccess.
RECURSIVE OthersBefore(_, _)
OthersBefore(others, i) ==
  IF i <= 1 THEN 0 ELSE OthersBefore(others, i - 1) + others[i - 1].n
OthersCount(others) == OthersBefore(others, Len(others) + 1)
\* others without its k oldest entries.
OthersDrop(others, k) ==
  LET left(i) == OthersBefore(others, i) + others[i].n - k
      cut == [i \in 1..Len(others) |->
                [others[i] EXCEPT !.n = IF left(i) < @ THEN left(i) ELSE @]] IN
  SelectSeq(cut, LAMBDA g : g.n > 0)
\* The lastAccess values among the k oldest entries of others, and among the
\* rest.
OthersDroppedTimes(others, k) ==
  {others[i].lastAccess : i \in {j \in 1..Len(others) : OthersBefore(others, j) < k}}
OthersKeptTimes(others, k) ==
  {others[i].lastAccess : i \in {j \in 1..Len(others) : OthersBefore(others, j) + others[j].n > k}}

\* A pruning that removes the entries with the newest lastAccess: not what
\* pruneCodexSessionCWDCacheLocked does.
pruneNewestFirst(cache, others) ==
  LET held == {p \in DOMAIN cache : cache[p] # <<>>}
      excess == Cardinality(held) + OthersCount(others) - codexCwdCacheMaxEntries IN
  IF excess <= 0 THEN {[cwdCache |-> cache, others |-> others]}
  ELSE {[cwdCache |-> [p \in DOMAIN cache |-> IF p \in R THEN <<>> ELSE cache[p]],
         others |-> others] :
          R \in {X \in SUBSET held :
                   /\ Cardinality(X) = excess
                   /\ \A x \in X : \A k \in held \ X :
                        cache[x][1].lastAccess >= cache[k][1].lastAccess}}

\* pruneCodexSessionCWDCacheLocked: the caches it can leave, the entries
\* over the cap removed by ascending lastAccess (sort.Slice may order equal
\* lastAccess values either way).
pruneCodexSessionCWDCacheLocked(cache, others) ==
  LET held == {p \in DOMAIN cache : cache[p] # <<>>}
      excess == Cardinality(held) + OthersCount(others) - codexCwdCacheMaxEntries IN
  IF excess <= 0 THEN {[cwdCache |-> cache, others |-> others]}
  ELSE {[cwdCache |-> [p \in DOMAIN cache |-> IF p \in R THEN <<>> ELSE cache[p]],
         others |-> OthersDrop(others, excess - Cardinality(R))] :
          R \in {X \in SUBSET held :
                   LET k == excess - Cardinality(X)
                       dropped == {cache[x][1].lastAccess : x \in X}
                                    \cup OthersDroppedTimes(others, k)
                       kept == {cache[x][1].lastAccess : x \in held \ X}
                                 \cup OthersKeptTimes(others, k) IN
                   /\ k >= 0
                   /\ k <= OthersCount(others)
                   /\ \A a \in dropped : \A b \in kept : a <= b}}

\* The walk callback's end for one file: a matching cwd with a later mtime
\* than the best so far makes the file the best; the walk goes on.
WalkedOn(l, cwd) ==
  LET p == Head(l.todo)
      better == cwdMatches(cwd, Worktree) /\ l.info[1].mtime > l.bestModTime IN
  [l EXCEPT !.pc = "info", !.todo = Tail(l.todo), !.info = <<>>, !.entry = <<>>,
            !.cwd = NoCwd, !.cwdVer = 0,
            !.bestPath = IF better THEN p ELSE l.bestPath,
            !.bestModTime = IF better THEN l.info[1].mtime ELSE l.bestModTime]
\* The callback returns nil without a cwd.
WalkSkipped(l) ==
  [l EXCEPT !.pc = "info", !.todo = Tail(l.todo), !.info = <<>>, !.entry = <<>>,
            !.cwd = NoCwd, !.cwdVer = 0]

\* findCodexSessionForPath is called: cachedCodexSessionPath reads the entry
\* under the lock and tests its expiry against the time taken before.
PathLookup(d) ==
  /\ Alive
  /\ codex.g[d].pc = "idle"
  /\ LET e == codex.pathCache
         l == IdleG(<<>>) IN
     codex' = [codex EXCEPT !.g[d] =
       IF e = <<>> THEN [l EXCEPT !.pc = "walk"]
       ELSE IF pathEntryExpired(now, e[1]) THEN [l EXCEPT !.pc = "pathDelete", !.entry = e]
       ELSE IF e[1].sessionPath = "" THEN IdleG(Returned("", TRUE))
       ELSE [l EXCEPT !.pc = "pathStat", !.t = now, !.entry = e]]
  /\ UNCHANGED <<now, codexFrame>>

\* os.Stat(entry.sessionPath) on a positive entry that has not expired.
PathStat(d) ==
  /\ Alive
  /\ codex.g[d].pc = "pathStat"
  /\ LET l == codex.g[d] IN
     codex' = [codex EXCEPT !.g[d] =
       IF codex.files[l.entry[1].sessionPath].exists
       THEN IdleG(Returned(l.entry[1].sessionPath, TRUE))
       ELSE [l EXCEPT !.pc = "pathDelete"]]
  /\ UNCHANGED <<now, codexFrame>>

\* delete(codexSessionCache.entries, key) under the lock, and the miss.
PathDelete(d) ==
  /\ Alive
  /\ codex.g[d].pc = "pathDelete"
  /\ codex' = [codex EXCEPT !.pathCache = <<>>, !.g[d] = [IdleG(<<>>) EXCEPT !.pc = "walk"]]
  /\ UNCHANGED <<now, codexFrame>>

\* filepath.WalkDir reads the sessions directory.
WalkList(d) ==
  /\ Alive
  /\ codex.g[d].pc = "walk"
  /\ codex' = [codex EXCEPT !.g[d].pc = "info",
                            !.g[d].todo = SelectSeq(CodexWalkOrder, LAMBDA p : codex.files[p].exists)]
  /\ UNCHANGED <<now, codexFrame>>

\* The walk callback's d.Info() for the next file; a file that has vanished
\* is passed over.
WalkInfo(d) ==
  /\ Alive
  /\ codex.g[d].pc = "info"
  /\ codex.g[d].todo # <<>>
  /\ LET l == codex.g[d]
         f == codex.files[Head(l.todo)] IN
     codex' = [codex EXCEPT !.g[d] =
       IF ~f.exists THEN WalkSkipped(l)
       ELSE [l EXCEPT !.pc = "cwdLookup",
                      !.info = <<[mtime |-> f.mtime, size |-> f.size, ver |-> f.ver]>>]]
  /\ UNCHANGED <<now, codexFrame>>

\* cachedCodexSessionCWD(path, info): a hit refreshes lastAccess and gives
\* the entry's cwd; a miss deletes the entry there is.
CwdLookup(d) ==
  /\ Alive
  /\ codex.g[d].pc = "cwdLookup"
  /\ LET l == codex.g[d]
         p == Head(l.todo)
         e == codex.cwdCache[p] IN
     IF e # <<>> /\ cwdCacheHit(e[1], l.info[1])
     THEN codex' = [codex EXCEPT !.cwdCache[p] = <<[e[1] EXCEPT !.lastAccess = now]>>,
                                 !.g[d] = WalkedOn(l, e[1].cwd)]
     ELSE codex' = [codex EXCEPT !.cwdCache[p] = <<>>,
                                 !.g[d].pc = "cwdRead", !.g[d].entry = e]
  /\ UNCHANGED <<now, codexFrame>>

\* getCodexSessionCWD opens the file and scans it for the first session_meta
\* record with a cwd.
CwdRead(d) ==
  /\ Alive
  /\ codex.g[d].pc = "cwdRead"
  /\ LET l == codex.g[d]
         f == codex.files[Head(l.todo)] IN
     codex' = [codex EXCEPT !.g[d] =
       IF ~f.exists \/ f.cwd = NoCwd THEN WalkSkipped(l)
       ELSE [l EXCEPT !.pc = "cwdStore", !.entry = <<>>, !.cwd = f.cwd, !.cwdVer = f.ver]]
  /\ UNCHANGED <<now, codexFrame>>

\* setCodexSessionCWDCache(path, info, cwd), pruning included.
CwdStore(d) ==
  /\ Alive
  /\ codex.g[d].pc = "cwdStore"
  /\ LET l == codex.g[d]
         p == Head(l.todo)
         stored == [codex.cwdCache EXCEPT ![p] =
                      <<[cwd |-> l.cwd, modTime |-> l.info[1].mtime, size |-> l.info[1].size,
                         lastAccess |-> now, ver |-> l.cwdVer]>>] IN
     \E pruned \in pruneCodexSessionCWDCacheLocked(stored, codex.others) :
       codex' = [codex EXCEPT !.cwdCache = pruned.cwdCache, !.others = pruned.others,
                              !.g[d] = WalkedOn(l, l.cwd)]
  /\ UNCHANGED <<now, codexFrame>>

\* The walk is over: setCachedCodexSessionPath with the best path, or with
\* "" when no file matched, and the return.
PathStore(d) ==
  /\ Alive
  /\ codex.g[d].pc = "info"
  /\ codex.g[d].todo = <<>>
  /\ LET l == codex.g[d] IN
     codex' = [codex EXCEPT
       !.pathCache = <<[sessionPath |-> l.bestPath, expiresAt |-> now + codexSessionCacheTTL]>>,
       !.g[d] = IdleG(Returned(l.bestPath, FALSE))]
  /\ UNCHANGED <<now, codexFrame>>

\* Codex creates the file p or writes to it: the mtime moves on, the size
\* changes or not, and the first session_meta record is cwd's.
CodexWrite(p, cwd, resize) ==
  /\ Alive
  /\ now > codex.files[p].mtime
  /\ LET f == codex.files[p] IN
     codex' = [codex EXCEPT !.files[p] =
       [exists |-> TRUE, mtime |-> now,
        size |-> IF ~f.exists THEN 1 ELSE IF resize THEN 3 - f.size ELSE f.size,
        cwd |-> cwd, ver |-> f.ver + 1]]
  /\ UNCHANGED <<now, codexFrame>>

\* The file p is removed.
CodexRemove(p) ==
  /\ Alive
  /\ codex.files[p].exists
  /\ codex' = [codex EXCEPT !.files[p].exists = FALSE]
  /\ UNCHANGED <<now, codexFrame>>

(***************************************************************************)
(* SpecCache: a goroutine looks the working directory's Codex session up   *)
(* again and again while the rollout file r1 is written, rewritten and     *)
(* removed, a second file r2 of the working directory appears, and the     *)
(* clock advances in steps of half the TTL.                                *)
(***************************************************************************)
CacheStep == codexSessionCacheTTL \div 2
CacheHorizon == StartTime + CacheTicks * CacheStep

InitCache ==
  /\ InitWatcher
  /\ InitManager
  /\ InitDisk(<<>>)
  /\ hist = NoHist
  /\ det = NoDet
  /\ codex = [files |-> [p \in CodexPaths |-> NoCodexFile],
              cwdCache |-> [p \in CodexPaths |-> <<>>],
              others |-> <<>>,
              pathCache |-> <<>>,
              g |-> [d \in Detectors |-> IdleG(<<>>)]]
  /\ mStats = NoStats
  /\ lk = NoLock

\* The goroutine that runs in SpecCache.
CacheUsers == {"d1"}

CacheLookup ==
  \E d \in CacheUsers :
    \/ PathLookup(d)
    \/ PathStat(d)
    \/ PathDelete(d)
    \/ PathStore(d)
CacheWalk ==
  \E d \in CacheUsers :
    \/ WalkList(d)
    \/ WalkInfo(d)
    \/ CwdLookup(d)
    \/ CwdRead(d)
    \/ CwdStore(d)
CacheWrite == \E cwd \in CodexCwds, resize \in BOOLEAN : CodexWrite("r1", cwd, resize)
CacheOther == ~codex.files["r2"].exists /\ CodexWrite("r2", Worktree, FALSE)
CacheRemove == CodexRemove("r1")
CacheClock == now + CacheStep <= CacheHorizon /\ Tick(CacheStep)

NextCache ==
  \/ CacheLookup
  \/ CacheWalk
  \/ CacheWrite
  \/ CacheOther
  \/ CacheRemove
  \/ CacheClock

SpecCache == InitCache /\ [][NextCache]_vars

\* Goroutine d is in cachedCodexSessionCWD for the file p with the FileInfo
\* info, and leaves it in this step.
CwdLooksUp(d) == codex.g[d].pc = "cwdLookup" /\ codex.g[d].pc' # "cwdLookup"
\* getCodexSessionCWD returns a cwd to goroutine d in this step.
CwdReturns(d) ==
  /\ codex.g[d].pc \in {"cwdLookup", "cwdStore"}
  /\ codex.g[d].pc' = "info"

\* C22: a lookup in the CWD cache is a hit exactly when there is an entry
\* for the path whose mtime and size both equal those of the FileInfo
\* supplied; the hit keeps the entry and uses its cwd; a miss removes the
\* entry there is, and the cwd is then read from the file and stored with
\* the FileInfo's mtime and size.  The cwd getCodexSessionCWD hands back is
\* never older than the FileInfo it was called with.
C22_HitNeedsExactMatch ==
  [][\A d \in Detectors :
       LET l == codex.g[d]
           p == Head(l.todo)
           e == codex.cwdCache[p]
           info == l.info[1] IN
       /\ CwdLooksUp(d) =>
             IF e # <<>> /\ e[1].modTime = info.mtime /\ e[1].size = info.size
             THEN /\ codex.g[d].pc' = "info"
                  /\ codex.cwdCache'[p] # <<>>
                  /\ codex.cwdCache'[p][1].cwd = e[1].cwd
                  /\ codex.g[d]' = WalkedOn(l, e[1].cwd)
                  /\ e[1].ver >= info.ver
             ELSE /\ codex.g[d].pc' = "cwdRead"
                  /\ codex.cwdCache'[p] = <<>>
       /\ (l.pc = "cwdRead" /\ codex.g[d].pc' = "cwdStore") =>
             /\ codex.g[d].cwd' = codex.files[p].cwd
             /\ codex.g[d].cwdVer' >= info.ver
       /\ (l.pc = "cwdStore" /\ codex.g[d].pc' = "info") =>
             /\ codex.cwdCache'[p] # <<>>
             /\ codex.cwdCache'[p][1].cwd = l.cwd
             /\ codex.cwdCache'[p][1].modTime = info.mtime
             /\ codex.cwdCache'[p][1].size = info.size
             /\ codex.g[d]' = WalkedOn(l, l.cwd)
    ]_vars

\* A lookup has just missed on an entry of the same size and another mtime
\* than the live file's, and the entry is gone.
C22_Witness ==
  \E d \in Detectors :
    LET l == codex.g[d] IN
    /\ l.pc = "cwdRead"
    /\ l.entry # <<>>
    /\ l.entry[1].size = l.info[1].size
    /\ l.entry[1].modTime # l.info[1].mtime
    /\ codex.cwdCache[Head(l.todo)] = <<>>

\* C23: a lookup in the path cache returns a cached result only for an
\* entry whose expiry the clock has not passed, and for a positive entry
\* only when the cached file exists when it is stat'ed; an expired entry,
\* and a positive entry whose file is gone, are deleted and the lookup is a
\* miss, followed by a walk of the directory; a not-found entry that has
\* not expired is returned as a not-found hit; and a store sets the expiry
\* to the time of the store plus 5 s.
C23_PathCacheLookup ==
  [][\A d \in Detectors :
       LET l == codex.g[d]
           e == codex.pathCache IN
       /\ (l.pc = "idle" /\ codex.g[d]' # l) =>
             IF e = <<>> THEN codex.g[d].pc' = "walk"
             ELSE IF now > e[1].expiresAt THEN codex.g[d].pc' = "pathDelete"
             ELSE IF e[1].sessionPath = ""
                  THEN codex.g[d]' = IdleG(Returned("", TRUE)) /\ codex.pathCache' = e
             ELSE /\ codex.g[d]' = [IdleG(<<>>) EXCEPT !.pc = "pathStat", !.t = now, !.entry = e]
                  /\ codex.pathCache' = e
       /\ (l.pc = "pathStat" /\ codex.g[d]' # l) =>
             IF codex.files[l.entry[1].sessionPath].exists
             THEN /\ codex.g[d]' = IdleG(Returned(l.entry[1].sessionPath, TRUE))
                  /\ codex.pathCache' = e
                  /\ l.t <= l.entry[1].expiresAt
             ELSE codex.g[d].pc' = "pathDelete"
       /\ (l.pc = "pathDelete" /\ codex.g[d]' # l) =>
             codex.pathCache' = <<>> /\ codex.g[d].pc' = "walk"
       /\ (l.pc = "info" /\ codex.g[d].pc' = "idle") =>
             /\ codex.pathCache' = <<[sessionPath |-> l.bestPath, expiresAt |-> now + 5000]>>
             /\ codex.g[d]' = IdleG(Returned(l.bestPath, FALSE))
       /\ (codex.g[d]' # l /\ codex.g[d].pc' = "idle" /\ codex.g[d].ret'[1].cached) =>
             l.pc \in {"idle", "pathStat"}
    ]_vars

\* A lookup found a positive entry that had not expired, its file was gone,
\* and the entry is about to be deleted; the other file of the working
\* directory is there for the walk to find.
C23_Witness ==
  \E d \in Detectors :
    LET l == codex.g[d] IN
    /\ l.pc = "pathDelete"
    /\ l.entry # <<>>
    /\ l.t <= l.entry[1].expiresAt
    /\ l.entry[1].sessionPath = "r1"
    /\ ~codex.files["r1"].exists
    /\ codex.files["r2"].exists

(***************************************************************************)
(* SpecLife: one watcher with four session files, three in directories of  *)
(* their own, registered in one batch, and one in the root directory,      *)
(* registered by itself, and all that goes on in it: registration (also of *)
(* a known ID under another path), promotion with                          *)
(* capacity eviction, the demotion sweep, the poll cycle, and the          *)
(* notification consumer with its debounce callbacks, while the root       *)
(* directory's session file is written and removed.  The clock advances,   *)
(* by the debounce delay or past the inactivity timeout, when the          *)
(* goroutines have no work at hand.                                        *)
(***************************************************************************)
LifePaths == {P1, P2, P3, PA}
LifeStep == HotInactivityTimeout + ColdPollInterval

LifeHorizon == StartTime + LifeTicks * LifeStep + LifeShortTicks * debounceDelay

InitLife ==
  /\ InitWatcher
  /\ InitManager
  /\ InitDisk((PA :> ZeroTime + 1) @@ (P1 :> ZeroTime + 2) @@ (P2 :> ZeroTime + 3) @@ (P3 :> ZeroTime + 4))
  /\ hist = NoHist
  /\ det = NoDet
  /\ codex = NoCodex
  /\ mStats = NoStats
  /\ lk = NoLock

\* The three sessions in directories of their own are registered in one
\* batch, which makes them hot.
LifeBatch ==
  /\ sessions = <<>>
  /\ now = StartTime
  /\ RegisterSessions(ScanBatch({P1, P2, P3}), {Dir(P1), Dir(P2), Dir(P3)})

LifeRegister == RegisterSession(extractID(PA), PA)

\* RegisterSession for a known ID, with another path than it was registered
\* under.
LifeRegisterAgain ==
  /\ extractID(PA) \in DOMAIN sessions
  /\ RegisterSession(extractID(PA), P1)

LifePromote == PromoteToHot(extractID(PA), TRUE)

\* No poll cycle is under way or due.
LifePollIdle == pollPc = "idle" /\ ~pollTick

\* The root directory's session file is written and removed between poll
\* cycles, and the poll ticker fires when the notification consumer and the
\* callbacks have nothing at hand (a debounce timer may be armed).
LifeWrite == LifePollIdle /\ WriteFile(PA, TRUE)

LifeRemove == LifePollIdle /\ RemoveFile(PA)

LifePollTicker == fsEvents = <<>> /\ fired = <<>> /\ cbPc = "none" /\ PollTickerFire

\* The goroutines have finished the work they have at hand: steps take
\* microseconds, the clock's steps are tenths of a second and minutes.
LifeQuiet ==
  /\ fsEvents = <<>>
  /\ fired = <<>>
  /\ cbPc = "none"
  /\ LifePollIdle
  /\ timer # <<>> => now < timer[1].deadline

\* When the work at hand is done, the clock advances by the debounce delay,
\* or past the inactivity timeout.
LifeClock ==
  /\ LifeQuiet
  /\ \/ /\ (now - StartTime) % LifeStep < LifeShortTicks * debounceDelay
        /\ Tick(debounceDelay)
     \/ /\ now + LifeStep <= LifeHorizon
        /\ Tick(LifeStep)

NextLife ==
  \/ LifeBatch
  \/ LifeRegister
  \/ LifeRegisterAgain
  \/ LifePromote
  \/ demoteInactive
  \/ LifeWrite
  \/ LifeRemove
  \/ LifeClock
  \/ LifePollTicker
  \/ PollBegin
  \/ PollStat
  \/ PollEnd
  \/ PollUpdate
  \/ PollSend
  \/ LoopHandle
  \/ TimerFire
  \/ CbRun
  \/ CbSend
  \/ ConsumeEvent

SpecLife == InitLife /\ [][NextLife]_vars

\* What a step that is RegisterSession(id, path) does.
RegistersCold(id, path) ==
  /\ UNCHANGED <<hotIDs, watchDirs>>
  /\ IF id \in DOMAIN sessions
     THEN sessions' = sessions
     ELSE /\ DOMAIN sessions' = DOMAIN sessions \cup {id}
          /\ \A o \in DOMAIN sessions : sessions'[o] = sessions[o]
          /\ sessions'[id].ID = id
          /\ sessions'[id].Path = path
          /\ sessions'[id].LastHot = ZeroTime
          /\ ~SeqContains(hotIDs', id)

\* C24: RegisterSession(id, path) for an ID that is not registered adds the
\* session as a cold one, with that path and no promotion time, and leaves
\* the hot list, the watched directories and the other sessions as they
\* are; for an ID that is registered it changes nothing: the session's path,
\* cached mtime and size, LastHot and tier, and all other sessions, stay.
C24_RegisterOnce ==
  [][\A q \in {PA, P1} :
       RegisterSession(extractID(PA), q) => RegistersCold(extractID(PA), q)]_vars

\* The root directory's session is registered under its own path, is hot,
\* and its file has been written since: registering its ID again under the
\* path of another file would change its path, mtime, LastHot and tier if
\* RegisterSession replaced the entry.
C24_Witness ==
  /\ extractID(PA) \in DOMAIN sessions
  /\ sessions[extractID(PA)].Path = PA
  /\ SeqContains(hotIDs, extractID(PA))
  /\ sessions[extractID(PA)].LastHot > ZeroTime
  /\ sessions[extractID(PA)].ModTime # Stat(P1).mtime
  /\ Len(hotIDs) = MaxHotSessions

\* C25: a registered session stays registered, under the ID and the path it
\* was registered with, in every step of the running watcher: promotion,
\* capacity eviction, the demotion sweep, a poll cycle (also one whose stat
\* fails because the file is gone) and the handling of a notification (also
\* of a removal) change its tier, LastHot, mtime and size at most.
C25_StaysRegistered ==
  [][\A id \in DOMAIN sessions :
       /\ id \in DOMAIN sessions'
       /\ sessions'[id].ID = sessions[id].ID
       /\ sessions'[id].Path = sessions[id].Path]_vars

\* The root directory's session was hot and is cold again, its file is
\* gone, the notifications about it were handled to the end, and a poll
\* cycle has only its file left to stat, which will fail: the session is
\* still registered.
C25_Witness ==
  /\ extractID(PA) \in DOMAIN sessions
  /\ ~Stat(PA).exists
  /\ sessions[extractID(PA)].LastHot > ZeroTime
  /\ ~SeqContains(hotIDs, extractID(PA))
  /\ lastPath = <<PA>>
  /\ fsEvents = <<>> /\ timer = <<>> /\ fired = <<>> /\ cbPc = "none"
  /\ pollPc = "loop"
  /\ toCheck # {}
  /\ \A c \in toCheck : c.id = extractID(PA)
  /\ Cardinality(DOMAIN sessions) > MaxHotSessions

(***************************************************************************)
(* The manager's calls into its watchers.  Manager.PromoteSession,         *)
(* Manager.RegisterSession and Manager.Stats hold m.mu from beginning to   *)
(* end and take each watcher's own lock for the call into it; the calls    *)
(* into different watchers touch disjoint state, so each manager call is   *)
(* one step.  The second watcher's registry is peer.sessions, peer.hotIDs  *)
(* and peer.watchDirs.                                                     *)
(***************************************************************************)
\* The registry of watcher w: its sessions, hot list and watched directories.
TwOf(w) ==
  IF w = "peer"
  THEN [sessions |-> peer.sessions, hotIDs |-> peer.hotIDs, watchDirs |-> peer.watchDirs]
  ELSE [sessions |-> sessions, hotIDs |-> hotIDs, watchDirs |-> watchDirs]

\* The second watcher with the registry r.
PeerWith(r) ==
  [peer EXCEPT !.sessions = r.sessions, !.hotIDs = r.hotIDs, !.watchDirs = r.watchDirs]

\* What PromoteToHot(sessionID) makes of the registry r.
PromoteIn(r, sessionID, addOK) ==
  IF sessionID \notin DOMAIN r.sessions THEN r
  ELSE LET s1 == [r.sessions EXCEPT ![sessionID].LastHot = now] IN
       IF SeqContains(r.hotIDs, sessionID)
       THEN [r EXCEPT !.sessions = s1]
       ELSE [sessions |-> s1,
             hotIDs |-> EnforceCapacity(Append(r.hotIDs, sessionID), s1, now),
             watchDirs |-> WatchDir(r.watchDirs, Dir(s1[sessionID].Path), addOK)]

\* What RegisterSession(id, path) makes of the registry r.
RegisterIn(r, id, path) ==
  IF id \in DOMAIN r.sessions THEN r
  ELSE [r EXCEPT !.sessions = @ @@ (id :> NewInfo(id, path, Stat(path)))]

\* What is left alone by a call that changes the two watchers' registries
\* at most.
registryFrame ==
  <<events, chanVars, envVars, pollVars, demotePc, wlVars, closePc, mClosed, watchers, closers,
    mTodo, mEvents, mEventsClosed, fwdPc, fwdEvt, mClosePc, panicked, ghostVars>>

\* The second watcher's RegisterSession and PromoteToHot, called by its
\* adapter.
PeerRegisterSession(id, path) ==
  /\ Alive
  /\ peer' = PeerWith(RegisterIn(TwOf("peer"), id, path))
  /\ UNCHANGED <<sessions, tierVars, registryFrame>>

PeerPromoteToHot(sessionID, addOK) ==
  /\ Alive
  /\ peer' = PeerWith(PromoteIn(TwOf("peer"), sessionID, addOK))
  /\ UNCHANGED <<sessions, tierVars, registryFrame>>

\* The watchers in m.watchers.
Owned == {watchers[a] : a \in AdapterIDs} \ {"none"}

\* Manager.PromoteSession as it would be if it stopped after the first
\* watcher that knows the session.
ManagerPromoteFirst(sessionID, addOK) ==
  /\ Alive
  /\ LET first == "tw" \in Owned /\ sessionID \in DOMAIN sessions
         t == IF first THEN PromoteIn(TwOf("tw"), sessionID, addOK) ELSE TwOf("tw")
         q == IF "peer" \in Owned /\ ~first
              THEN PromoteIn(TwOf("peer"), sessionID, addOK) ELSE TwOf("peer") IN
     /\ sessions' = t.sessions
     /\ hotIDs' = t.hotIDs
     /\ watchDirs' = t.watchDirs
     /\ peer' = PeerWith(q)
  /\ UNCHANGED registryFrame

\* Manager.PromoteSession(sessionID): PromoteToHot on every watcher of
\* m.watchers.
ManagerPromoteSession(sessionID, addOK) ==
  /\ Alive
  /\ LET t == IF "tw" \in Owned THEN PromoteIn(TwOf("tw"), sessionID, addOK) ELSE TwOf("tw")
         q == IF "peer" \in Owned THEN PromoteIn(TwOf("peer"), sessionID, addOK) ELSE TwOf("peer") IN
     /\ sessions' = t.sessions
     /\ hotIDs' = t.hotIDs
     /\ watchDirs' = t.watchDirs
     /\ peer' = PeerWith(q)
  /\ UNCHANGED registryFrame

\* Manager.RegisterSession(adapterID, sessionID, path): RegisterSession on
\* the watcher m.watchers holds for adapterID, nothing when it holds none.
ManagerRegisterSession(adapterID, sessionID, path) ==
  /\ Alive
  /\ LET w == watchers[adapterID]
         t == IF w = "tw" THEN RegisterIn(TwOf("tw"), sessionID, path) ELSE TwOf("tw")
         q == IF w = "peer" THEN RegisterIn(TwOf("peer"), sessionID, path) ELSE TwOf("peer") IN
     /\ sessions' = t.sessions
     /\ hotIDs' = t.hotIDs
     /\ watchDirs' = t.watchDirs
     /\ peer' = PeerWith(q)
  /\ UNCHANGED registryFrame

\* TieredWatcher.Stats as it would be if the cold count were the number of
\* registered sessions.
TwStatsAllCold(r) ==
  [hot |-> Len(r.hotIDs), cold |-> Cardinality(DOMAIN r.sessions), dirs |-> Cardinality(r.watchDirs)]

\* TieredWatcher.Stats on the registry r.
TwStats(r) ==
  [hot |-> Len(r.hotIDs),
   cold |-> Cardinality(DOMAIN r.sessions) - Len(r.hotIDs),
   dirs |-> Cardinality(r.watchDirs)]

\* Manager.Stats' loop over the entries of m.watchers for the adapter IDs as.
RECURSIVE SumStats(_)
SumStats(as) ==
  IF as = {} THEN [hot |-> 0, cold |-> 0, dirs |-> 0]
  ELSE LET a == CHOOSE x \in as : TRUE
           rest == SumStats(as \ {a})
           one == TwStats(TwOf(watchers[a])) IN
       [hot |-> rest.hot + one.hot, cold |-> rest.cold + one.cold, dirs |-> rest.dirs + one.dirs]

\* Manager.Stats().
ManagerStats ==
  /\ Alive
  /\ mStats' = <<SumStats({a \in AdapterIDs : watchers[a] # "none"})>>
  /\ UNCHANGED <<twVars, envVars, pollVars, demotePc, wlVars, closePc, mgrVars, panicked, hist, det, codex, lk>>

(***************************************************************************)
(* SpecFanout: a manager and two watchers.  Each watcher may be added to   *)
(* the manager under one of two adapter IDs (a later AddWatcher under the  *)
(* same ID replaces the earlier watcher in m.watchers); sessions are       *)
(* registered and promoted by a watcher's adapter before the watcher is    *)
(* added, and through the manager, and Manager.Stats is called.  The clock *)
(* stands still.                                                           *)
(***************************************************************************)
FanPaths == {P1, P3}
FanPeerPaths == {P1, P2}

InitFanout ==
  /\ InitWatcher
  /\ InitManager
  /\ InitDisk(TierMtimes)
  /\ hist = NoHist
  /\ det = NoDet
  /\ codex = NoCodex
  /\ mStats = NoStats
  /\ lk = NoLock

FanAdd == \E a \in AdapterIDs : \E w \in Watchers : AddWatcher(a, w)

FanRegister ==
  \E a \in AdapterIDs : \E p \in FanPeerPaths : ManagerRegisterSession(a, extractID(p), p)

\* A watcher's adapter registers and promotes sessions before it hands the
\* watcher to the manager.
FanRegisterDirect ==
  \/ ~SeqContains(closers, "tw") /\ \E p \in FanPaths : RegisterSession(extractID(p), p)
  \/ ~SeqContains(closers, "peer") /\ \E p \in FanPeerPaths : PeerRegisterSession(extractID(p), p)

FanPromote == \E p \in FanPaths \cup FanPeerPaths : ManagerPromoteSession(extractID(p), TRUE)

FanPromoteDirect ==
  \/ ~SeqContains(closers, "tw") /\ \E p \in FanPaths : PromoteToHot(extractID(p), TRUE)
  \/ ~SeqContains(closers, "peer") /\ \E p \in FanPeerPaths : PeerPromoteToHot(extractID(p), TRUE)

NextFanout ==
  \/ FanAdd
  \/ FanRegister
  \/ FanRegisterDirect
  \/ FanPromote
  \/ FanPromoteDirect
  \/ ManagerStats

SpecFanout == InitFanout /\ [][NextFanout]_vars

\* Watcher w's registry after PromoteToHot(id) on r: id is hot and its
\* LastHot is the time of the call, no session was added or removed, and
\* the other sessions' entries are as they were.
PromotedFrom(r, q, id) ==
  /\ DOMAIN q.sessions = DOMAIN r.sessions
  /\ q.sessions[id] = [r.sessions[id] EXCEPT !.LastHot = now]
  /\ \A o \in DOMAIN r.sessions \ {id} : q.sessions[o] = r.sessions[o]
  /\ SeqContains(q.hotIDs, id)
  /\ Dir(r.sessions[id].Path) \in q.watchDirs

\* C26: Manager.PromoteSession(id) promotes id in every watcher of
\* m.watchers in which it is registered and leaves every other watcher as
\* it is; a watcher's PromoteToHot for an ID it does not know changes
\* nothing.
C26_PromoteFansOut ==
  [][\A p \in FanPaths \cup FanPeerPaths :
       LET id == extractID(p) IN
       /\ ManagerPromoteSession(id, TRUE) =>
            \A w \in Watchers :
              IF w \in Owned /\ id \in DOMAIN TwOf(w).sessions
              THEN PromotedFrom(TwOf(w), TwOf(w)', id)
              ELSE TwOf(w)' = TwOf(w)
       /\ (PromoteToHot(id, TRUE) /\ id \notin DOMAIN sessions) => TwOf("tw")' = TwOf("tw")
       /\ (PeerPromoteToHot(id, TRUE) /\ id \notin DOMAIN peer.sessions) => TwOf("peer")' = TwOf("peer")]_vars

\* Both watchers are in m.watchers, one session is registered in both and
\* hot in both, and another is registered and cold in the second watcher
\* only.
C26_Witness ==
  /\ Owned = Watchers
  /\ extractID(P1) \in DOMAIN sessions \cap DOMAIN peer.sessions
  /\ SeqContains(hotIDs, extractID(P1))
  /\ SeqContains(peer.hotIDs, extractID(P1))
  /\ sessions[extractID(P1)].LastHot = now
  /\ peer.sessions[extractID(P1)].LastHot = now
  /\ extractID(P2) \in DOMAIN peer.sessions \ DOMAIN sessions
  /\ ~SeqContains(peer.hotIDs, extractID(P2))

\* The sum of f over the watchers in m.watchers.
OverOwned(f(_)) ==
  (IF "tw" \in Owned THEN f(TwOf("tw")) ELSE 0) + (IF "peer" \in Owned THEN f(TwOf("peer")) ELSE 0)

HotCount(r) == Len(r.hotIDs)
ColdCount(r) == Cardinality(DOMAIN r.sessions) - Len(r.hotIDs)
DirCount(r) == Cardinality(r.watchDirs)

\* C27: Manager.Stats returns, summed over the watchers in m.watchers, the
\* length of the hot list, the number of registered sessions that are not
\* hot, and the number of watched directories (the root directory is one of
\* them).
C27_StatsSum ==
  [][ManagerStats =>
       /\ mStats'[1].hot = OverOwned(HotCount)
       /\ mStats'[1].cold = OverOwned(ColdCount)
       /\ mStats'[1].dirs = OverOwned(DirCount)
       /\ \A w \in Owned : rootDir \in TwOf(w).watchDirs]_vars

\* Manager.Stats has returned the sums over two watchers that both have hot
\* and cold sessions and watch directories besides the root.
C27_Witness ==
  /\ mStats # NoStats
  /\ Owned = Watchers
  /\ mStats[1].hot = Len(hotIDs) + Len(peer.hotIDs)
  /\ mStats[1].cold = OverOwned(ColdCount)
  /\ mStats[1].dirs = Cardinality(watchDirs) + Cardinality(peer.watchDirs)
  /\ hotIDs # <<>> /\ peer.hotIDs # <<>>
  /\ DOMAIN sessions \ Range(hotIDs) # {}
  /\ DOMAIN peer.sessions \ Range(peer.hotIDs) # {}
  /\ Cardinality(watchDirs) > 1 /\ Cardinality(peer.watchDirs) > 1

(***************************************************************************)
(* SpecCover: one watcher with a session file in the root directory and    *)
(* one in a directory of its own, which is watched once its session was    *)
(* promoted and stays watched after the sweep has demoted it.  Both files  *)
(* are written between poll cycles; the notification consumer, its         *)
(* debounce callbacks and the poll cycles run, and the clock advances as   *)
(* in SpecLife.                                                            *)
(***************************************************************************)
CoverPaths == {PA, P1}

InitCover ==
  /\ InitWatcher
  /\ InitManager
  /\ InitDisk((PA :> ZeroTime + 1) @@ (P1 :> ZeroTime + 2))
  /\ hist = NoHist
  /\ det = NoDet
  /\ codex = NoCodex
  /\ mStats = NoStats
  /\ lk = NoLock

CoverRegister == \E p \in CoverPaths : RegisterSession(extractID(p), p)

CoverPromote == PromoteToHot(extractID(P1), TRUE)

CoverWrite == LifePollIdle /\ \E p \in CoverPaths : WriteFile(p, TRUE)

NextCover ==
  \/ CoverRegister
  \/ CoverPromote
  \/ demoteInactive
  \/ CoverWrite
  \/ LifeClock
  \/ LifePollTicker
  \/ PollBegin
  \/ PollStat
  \/ PollEnd
  \/ PollUpdate
  \/ PollSend
  \/ LoopHandle
  \/ TimerFire
  \/ CbRun
  \/ CbSend
  \/ ConsumeEvent

SpecCover == InitCover /\ [][NextCover]_vars

\* This step is a debounce callback's send that puts an event on the queue.
CallbackEmits ==
  /\ cbPc = "send"
  /\ cbPc' = "none"
  /\ Len(events') > Len(events)

\* This step is the poller's send, and it puts an event on the queue.
PollerEmits ==
  /\ pollPc = "send"
  /\ pollPc' # "send"
  /\ Len(events') > Len(events)

InitSweep ==
  /\ InitWatcher
  /\ InitManager
  /\ InitDisk((PA :> ZeroTime + 1) @@ (P1 :> ZeroTime + 2))
  /\ hist = HistActivity
  /\ det = NoDet
  /\ codex = NoCodex
  /\ mStats = NoStats
  /\ lk = NoLock

NextSweep ==
  \/ CoverRegister
  \/ CoverPromote
  \/ demoteInactive
  \/ CoverWrite
  \/ LifeClock
  \/ LoopHandle
  \/ TimerFire
  \/ CbRun
  \/ CbSend
  \/ ConsumeEvent

SpecSweep == InitSweep /\ [][NextSweep]_vars

\* The notification consumer handled a change of the file of session id less
\* than HotInactivityTimeout ago.
RecentlyActive(id) ==
  /\ id \in DOMAIN hist.seenAt
  /\ now - hist.seenAt[id] < HotInactivityTimeout

\* C33: a hot session for which the notification consumer handled a file
\* change within the last HotInactivityTimeout is still hot after a demotion
\* sweep, also when its promotion is older than that.
C33_ActiveStaysHot ==
  [][demoteInactive =>
       \A id \in Range(hotIDs) : RecentlyActive(id) => SeqContains(hotIDs', id)]_vars

(***************************************************************************)
(* SpecPrune: the CWD cache at and just under its cap.  It holds an entry  *)
(* for r1, current for the file on disk, and entries for rollout files of  *)
(* earlier walks that have since been removed; r1's entry is older than,   *)
(* as old as the oldest of, or newer than those.  A goroutine looks the    *)
(* working directory's session up again and again while r1 is removed and  *)
(* r2 appears.                                                             *)
(***************************************************************************)
PruneR1 == [exists |-> TRUE, mtime |-> ZeroTime + 1, size |-> 1, cwd |-> Worktree, ver |-> 1]
PruneAccess == {ZeroTime + 1, ZeroTime + 2, ZeroTime + 4}
PruneOthers == {codexCwdCacheMaxEntries - 2, codexCwdCacheMaxEntries - 1}

InitPrune ==
  /\ InitWatcher
  /\ InitManager
  /\ InitDisk(<<>>)
  /\ hist = NoHist
  /\ det = NoDet
  /\ mStats = NoStats
  /\ lk = NoLock
  /\ \E n \in PruneOthers, la \in PruneAccess :
       codex = [files |-> [p \in CodexPaths |-> IF p = "r1" THEN PruneR1 ELSE NoCodexFile],
                cwdCache |-> [p \in CodexPaths |->
                                IF p = "r1"
                                THEN <<[cwd |-> Worktree, modTime |-> PruneR1.mtime, size |-> PruneR1.size,
                                        lastAccess |-> la, ver |-> PruneR1.ver]>>
                                ELSE <<>>],
                others |-> <<[lastAccess |-> ZeroTime + 2, n |-> 1],
                             [lastAccess |-> ZeroTime + 3, n |-> n - 1]>>,
                pathCache |-> <<>>,
                g |-> [d \in Detectors |-> IdleG(<<>>)]]

NextPrune ==
  \/ CacheLookup
  \/ CacheWalk
  \/ CacheOther
  \/ CacheRemove
  \/ CacheClock

SpecPrune == InitPrune /\ [][NextPrune]_vars

\* The number of entries of the CWD cache, and the number of them with the
\* lastAccess t.
CwdHeld(cache) == {p \in DOMAIN cache : cache[p] # <<>>}
CwdEntries(cache, others) == Cardinality(CwdHeld(cache)) + OthersCount(others)
CwdEntriesAt(cache, others, t) ==
  Cardinality({p \in CwdHeld(cache) : cache[p][1].lastAccess = t})
    + OthersCount(SelectSeq(others, LAMBDA g : g.lastAccess = t))
CwdTimes(cache, others) ==
  {cache[p][1].lastAccess : p \in CwdHeld(cache)} \cup {others[i].lastAccess : i \in 1..Len(others)}
\* Goroutine d is in setCodexSessionCWDCache and leaves it in this step.
CwdStores(d) == codex.g[d].pc = "cwdStore" /\ codex.g[d].pc' # "cwdStore"

\* C38: after a store into the CWD cache it holds at most
\* codexCwdCacheMaxEntries entries; the store removes as many entries as the
\* cache with the new entry is over the cap and no other, every removed
\* entry has a lastAccess no later than that of every entry kept, and the
\* entry just stored is kept.
C38_StorePrunesOldest ==
  [][\A d \in CacheUsers : CwdStores(d) =>
       LET l == codex.g[d]
           p == Head(l.todo)
           rest == [codex.cwdCache EXCEPT ![p] = <<>>]
           before == 1 + CwdEntries(rest, codex.others)
           after == CwdEntries(codex.cwdCache', codex.others')
           was(t) == (IF t = now THEN 1 ELSE 0) + CwdEntriesAt(rest, codex.others, t)
           is(t) == CwdEntriesAt(codex.cwdCache', codex.others', t)
           times == {now} \cup CwdTimes(rest, codex.others) IN
       /\ after <= codexCwdCacheMaxEntries
       /\ after = IF before > codexCwdCacheMaxEntries THEN codexCwdCacheMaxEntries ELSE before
       /\ codex.cwdCache'[p] # <<>>
       /\ codex.cwdCache'[p][1].lastAccess = now
       /\ codex.cwdCache'[p][1].cwd = l.cwd
       /\ \A q \in CodexPaths \ {p} : codex.cwdCache'[q] \in {codex.cwdCache[q], <<>>}
       /\ CwdTimes(codex.cwdCache', codex.others') \subseteq times
       /\ \A t \in times : is(t) <= was(t)
       /\ \A t1 \in times : \A t2 \in times : (is(t1) < was(t1) /\ is(t2) > 0) => t1 <= t2]_vars

\* The cache is at its cap: r2's entry was stored in this instant, r1's
\* entry, the one with the oldest lastAccess, is gone, and none of the
\* entries of the removed files is.
C38_Witness ==
  /\ CwdEntries(codex.cwdCache, codex.others) = codexCwdCacheMaxEntries
  /\ codex.cwdCache["r1"] = <<>>
  /\ codex.cwdCache["r2"] # <<>>
  /\ codex.cwdCache["r2"][1].lastAccess = now
  /\ OthersCount(codex.others) = codexCwdCacheMaxEntries - 1
  /\ \E d \in CacheUsers : codex.g[d].pc = "info"

(***************************************************************************)
(* SpecRace: two goroutines look the working directory's Codex session up  *)
(* at the same time, as the status refreshes of two worktree rows do; the  *)
(* rollout file r1 is there from the start and may be removed, and the     *)
(* clock advances in steps of half the TTL.                                *)
(***************************************************************************)
InitRace ==
  /\ InitWatcher
  /\ InitManager
  /\ InitDisk(<<>>)
  /\ hist = NoHist
  /\ det = NoDet
  /\ mStats = NoStats
  /\ lk = NoLock
  /\ codex = [files |-> [p \in CodexPaths |-> IF p = "r1" THEN PruneR1 ELSE NoCodexFile],
              cwdCache |-> [p \in CodexPaths |-> <<>>],
              others |-> <<>>,
              pathCache |-> <<>>,
              g |-> [d \in Detectors |-> IdleG(<<>>)]]

RaceLookup ==
  \E d \in Detectors :
    \/ PathLookup(d)
    \/ PathStat(d)
    \/ PathDelete(d)
    \/ PathStore(d)
RaceWalk ==
  \E d \in Detectors :
    \/ WalkList(d)
    \/ WalkInfo(d)
    \/ CwdLookup(d)
    \/ CwdRead(d)
    \/ CwdStore(d)

NextRace ==
  \/ RaceLookup
  \/ RaceWalk
  \/ CacheRemove
  \/ CacheClock

SpecRace == InitRace /\ [][NextRace]_vars

\* Goroutine d is at cachedCodexSessionPath's delete and performs it in this
\* step.
PathDeletes(d) == codex.g[d].pc = "pathDelete" /\ codex.g[d].pc' # "pathDelete"

\* C32: a lookup of the path cache that read an expired entry, or one whose
\* file has vanished, removes no other entry than the one it read: what a
\* store has written since stays in the cache.
C32_LookupRemovesWhatItRead ==
  [][\A d \in Detectors :
       PathDeletes(d) => codex.pathCache \in {<<>>, codex.g[d].entry}]_vars

(***************************************************************************)
(* SpecMerge: a manager with two watchers.  The first watcher's poller     *)
(* reports the changes of one session file, the second watcher emits up to *)
(* PeerEmits events, each watcher's forwarding goroutine moves its events  *)
(* to the merged channel, and a reader may drain the merged channel.  The  *)
(* history holds what entered each watcher's channel and what entered the  *)
(* merged channel.                                                         *)
(***************************************************************************)
MergeHorizon == StartTime + MergeTicks * debounceDelay
PeerEvents == {Event("SessionUpdated", extractID(P1)), Event("SessionCreated", extractID(P2))}

InitMerge ==
  /\ InitWatcher
  /\ InitManager
  /\ InitDisk((PA :> ZeroTime + 1))
  /\ hist = HistStream
  /\ det = NoDet
  /\ codex = NoCodex
  /\ mStats = NoStats
  /\ lk = NoLock

MergeAdd == AddWatcher("a1", "tw") \/ AddWatcher("a2", "peer")
MergePeerEmit == \E e \in PeerEvents : PeerEmit(e)

NextMerge ==
  \/ RegisterSession(extractID(PA), PA)
  \/ LifePollIdle /\ WriteFile(PA, TRUE)
  \/ LifePollIdle /\ TimedTick(debounceDelay, MergeHorizon)
  \/ PollTickerFire
  \/ PollBegin
  \/ PollStat
  \/ PollEnd
  \/ PollUpdate
  \/ PollSend
  \/ MergeAdd
  \/ FwdRecv
  \/ FwdCheck
  \/ FwdSend
  \/ MergePeerEmit
  \/ PeerFwdRecv
  \/ PeerFwdCheck
  \/ PeerFwdSend
  \/ ConsumeMerged

SpecMerge == InitMerge /\ [][NextMerge]_vars

\* The watchers handed over to the manager.
HandedOver == Range(closers)

\* C40: every event that entered the merged channel is an event that a
\* watcher handed over to the manager emitted; no emitted event entered it
\* twice; the events of one watcher entered it in the order in which the
\* watcher emitted them; and the merged channel holds the last of them, as
\* emitted.
C40_MergedIsSubsequence ==
  /\ \A i \in 1..Len(hist.out) :
       /\ hist.out[i].w \in HandedOver
       /\ hist.out[i].n \in 1..Len(hist.log[hist.out[i].w])
  /\ \A i \in 1..Len(hist.out) : \A j \in 1..Len(hist.out) :
       (i < j /\ hist.out[i].w = hist.out[j].w) => hist.out[i].n < hist.out[j].n
  /\ Len(mEvents) <= Len(hist.out)
  /\ \A i \in 1..Len(mEvents) :
       LET o == hist.out[Len(hist.out) - Len(mEvents) + i] IN
       mEvents[i] = hist.log[o.w][o.n]

\* Both watchers' events entered the merged channel, two of one watcher with
\* a dropped one between them, and the merged channel holds events of both.
C40_Witness ==
  /\ \E i \in 1..Len(hist.out) : \E j \in 1..Len(hist.out) :
       /\ i < j
       /\ hist.out[i].w = hist.out[j].w
       /\ hist.out[j].n > hist.out[i].n + 1
  /\ {hist.out[i].w : i \in 1..Len(hist.out)} = Watchers
  /\ Len(mEvents) = MergedCap
  /\ mEvents[1] # mEvents[2]

(***************************************************************************)
(* SpecStop: the goroutines of a watcher and of its manager while they are *)
(* shut down.  The poller, the demoter, the notification consumer with its *)
(* callbacks and the forwarding goroutines of both watchers run; one       *)
(* caller calls Manager.Close, another calls TieredWatcher.Close, each     *)
(* once.  The scheduler starves no goroutine.                              *)
(***************************************************************************)
StopHorizon == StartTime + StopTicks * debounceDelay

\* The set-up: the session is registered, then the two watchers are handed
\* over; the rest begins when that is done.
StopReady == Range(closers) = Watchers
StopRegister == sessions = <<>> /\ RegisterSession(extractID(PA), PA)
StopAdd ==
  /\ sessions # <<>>
  /\ \/ AddWatcher("a1", "tw")
     \/ SeqContains(closers, "tw") /\ AddWatcher("a2", "peer")
StopWrite == StopReady /\ LifePollIdle /\ fsEvents = <<>> /\ fired = <<>> /\ cbPc = "none" /\ WriteFile(PA, TRUE)
StopClock == StopReady /\ LifePollIdle /\ TimedTick(debounceDelay, StopHorizon)
StopTicker == StopReady /\ fsEvents = <<>> /\ fired = <<>> /\ cbPc = "none" /\ PollTickerFire
StopDirect == StopReady /\ CloseCall("c2")
StopManager ==
  \/ StopReady /\ MgrCloseCall("c1")
  \/ MgrCloseWatcher("c1")
  \/ MgrClosePeer("c1")
  \/ MgrCloseNext("c1")
  \/ MgrCloseClosersDone("c1")
  \/ MgrCloseEvents("c1")

NextStop ==
  \/ StopRegister
  \/ StopWrite
  \/ StopClock
  \/ StopTicker
  \/ PollBegin
  \/ PollStat
  \/ PollEnd
  \/ PollUpdate
  \/ PollSend
  \/ PollExit
  \/ DemoteExit
  \/ LoopHandle
  \/ LoopExit
  \/ TimerFire
  \/ CbRun
  \/ CbSend
  \/ StopAdd
  \/ FwdRecv
  \/ FwdRangeEnd
  \/ FwdCheck
  \/ FwdSend
  \/ PeerFwdRangeEnd
  \/ StopDirect
  \/ StopManager

\* Every goroutine that can take a step takes it, the callers of Close
\* included.
FairStop ==
  /\ WF_vars(PollBegin)
  /\ WF_vars(PollStat)
  /\ WF_vars(PollEnd)
  /\ WF_vars(PollUpdate)
  /\ WF_vars(PollSend)
  /\ WF_vars(PollExit)
  /\ WF_vars(DemoteExit)
  /\ WF_vars(LoopHandle)
  /\ WF_vars(LoopExit)
  /\ WF_vars(CbRun)
  /\ WF_vars(CbSend)
  /\ WF_vars(FwdRecv)
  /\ WF_vars(FwdRangeEnd)
  /\ WF_vars(FwdCheck)
  /\ WF_vars(FwdSend)
  /\ WF_vars(PeerFwdRangeEnd)
  /\ WF_vars(StopDirect)
  /\ WF_vars(StopManager)

SpecStop == InitClose /\ [][NextStop]_vars /\ FairStop

\* The goroutines of the modelled watcher have returned: pollLoop,
\* demotionLoop, watchLoop and every started callback, and the forwarding
\* goroutine if there is one; likewise the forwarding goroutine of the
\* second watcher.
TwExited ==
  /\ pollPc = "exited"
  /\ demotePc = "exited"
  /\ loopPc = "exited"
  /\ fired = <<>>
  /\ cbPc = "none"
  /\ fwdPc \in {"none", "exited"}
PeerExited == peer.fwd \in {"none", "exited"}
\* A call of TieredWatcher.Close, of Manager.Close, has returned.
CloseReturned == \E c \in Callers : mClosePc[c] = "idle" /\ closePc[c] = "done"
MgrCloseReturned == \E c \in Callers : mClosePc[c] = "done"

\* C37: after TieredWatcher.Close has returned, the watcher's poller,
\* demoter, notification consumer, callbacks and forwarding goroutine
\* eventually all have returned; after Manager.Close has returned, so have
\* those of every watcher handed over to the manager.
C37_TasksTerminate ==
  /\ CloseReturned ~> TwExited
  /\ MgrCloseReturned ~> (/\ SeqContains(closers, "tw") => TwExited
                          /\ SeqContains(closers, "peer") => PeerExited)

\* The same, in the behaviours in which no goroutine panics.
ExitsUnlessPanicked ==
  /\ CloseReturned ~> (TwExited \/ ~Alive)
  /\ MgrCloseReturned ~> (\/ ~Alive
                          \/ /\ SeqContains(closers, "tw") => TwExited
                             /\ SeqContains(closers, "peer") => PeerExited)

(***************************************************************************)
(* The classifiers of the formats without sub-agents (agent_session.go):   *)
(* Codex, Gemini, OpenCode and Pi.  A session file is the record of its    *)
(* directory, name and mtime and of the roles of the messages read from    *)
(* it, oldest first; for OpenCode, whose messages are files of their own,  *)
(* roles are the roles of the session's message files by ascending mtime.  *)
(***************************************************************************)
RoleFile(dir, prefix, stem, ext, age, roles) ==
  [dir |-> dir, prefix |-> prefix, stem |-> stem, ext |-> ext,
   mtime |-> DetectNow - age, readable |-> TRUE, roles |-> roles]

\* The last of roles that is one of names, "" when there is none.
LastRole(roles, names) ==
  LET known == {i \in 1..Len(roles) : roles[i] \in names} IN
  IF known = {} THEN "" ELSE roles[CHOOSE i \in known : \A j \in known : j <= i]

\* The switch that ends each parser: user is Active, the assistant's role is
\* Waiting, anything else is not found.
RoleStatus(role, assistant) ==
  IF role = "user" THEN Res(StatusActive, TRUE)
  ELSE IF role = assistant THEN Res(StatusWaiting, TRUE)
  ELSE Res(StatusZero, FALSE)

\* getCodexLastMessageStatus: the last message record of the tail whose role
\* is assistant or user.
getCodexLastMessageStatus(f) ==
  IF ~f.readable THEN Res(StatusZero, FALSE)
  ELSE RoleStatus(LastRole(f.roles, {"user", "assistant"}), "assistant")

\* getGeminiLastMessageStatus: the last message of type user or gemini.
getGeminiLastMessageStatus(f) ==
  IF ~f.readable THEN Res(StatusZero, FALSE)
  ELSE RoleStatus(LastRole(f.roles, {"user", "gemini"}), "gemini")

\* getOpenCodeLastMessageStatus: the role of the most recently modified
\* message file, whatever it is.
getOpenCodeLastMessageStatus(f) ==
  IF ~f.readable \/ f.roles = <<>> THEN Res(StatusZero, FALSE)
  ELSE RoleStatus(f.roles[Len(f.roles)], "assistant")

\* getPiLastMessageStatus: the last message entry whose role is user or
\* assistant.
getPiLastMessageStatus(f) ==
  IF ~f.readable THEN Res(StatusZero, FALSE)
  ELSE RoleStatus(LastRole(f.roles, {"user", "assistant"}), "assistant")

\* The directories of the formats' session files for the working directory.
CodexDir == <<"codex", "sessions">>
GeminiDir == <<"gemini", "chats">>
OpenCodeDir == <<"opencode", "session">>
PiDir == <<"pi", "sessions">>

\* The most recently modified of the files fs, <<>> when there is none.
MostRecentFile(fs) ==
  IF fs = {} THEN <<>> ELSE <<CHOOSE f \in fs : \A g \in fs : f.mtime >= g.mtime>>

\* findCodexSessionForPath with a cold cache: the most recently modified
\* .jsonl file of the sessions directory whose cwd matches.
findCodexSessionForPath(files) ==
  MostRecentFile({f \in files : f.dir = CodexDir /\ f.ext = ".jsonl"})

\* findMostRecentJSON(dir, prefix).
findMostRecentJSON(files, dir, prefix) ==
  MostRecentFile({f \in files : f.dir = dir /\ f.ext = ".json" /\ (prefix # "" => f.prefix = prefix)})

\* findOpenCodeSession: the most recently modified .json file of the
\* project's session directory.
findOpenCodeSession(files) ==
  MostRecentFile({f \in files : f.dir = OpenCodeDir /\ f.ext = ".json"})

\* detectCodexSessionStatus: Active for a session file modified within
\* sessionActivityThreshold, else its last message's status.
detectCodexSessionStatus(files) ==
  LET sessionFile == findCodexSessionForPath(files) IN
  IF sessionFile = <<>> THEN Res(StatusZero, FALSE)
  ELSE IF isFileRecentlyModified(sessionFile[1], sessionActivityThreshold)
       THEN Res(StatusActive, TRUE)
  ELSE getCodexLastMessageStatus(sessionFile[1])

\* detectGeminiSessionStatus: the last message's status of the most recent
\* session- file; the mtime is not looked at.
detectGeminiSessionStatus(files) ==
  LET sessionFile == findMostRecentJSON(files, GeminiDir, "session-") IN
  IF sessionFile = <<>> THEN Res(StatusZero, FALSE)
  ELSE getGeminiLastMessageStatus(sessionFile[1])

\* detectOpenCodeSessionStatus: the last message's status of the most
\* recent session; the mtime is not looked at.
detectOpenCodeSessionStatus(files) ==
  LET session == findOpenCodeSession(files) IN
  IF session = <<>> THEN Res(StatusZero, FALSE)
  ELSE getOpenCodeLastMessageStatus(session[1])

\* detectPiSessionStatus: the first of the candidates decides, Active when
\* modified within sessionActivityThreshold, else its last message's status.
detectPiSessionStatus(sessionFiles) ==
  IF Len(sessionFiles) = 0 THEN Res(StatusZero, FALSE)
  ELSE IF isFileRecentlyModified(sessionFiles[1], sessionActivityThreshold)
       THEN Res(StatusActive, TRUE)
  ELSE getPiLastMessageStatus(sessionFiles[1])

detectFrame == <<twVars, envVars, pollVars, demotePc, wlVars, closePc, mgrVars, panicked, hist, codex, mStats, lk>>

\* detectAgentSessionStatus(Codex | Gemini | OpenCode | Pi, worktreePath) is
\* called.
DetectCodex ==
  /\ Alive
  /\ det.agentType = "codex"
  /\ det.out = <<>>
  /\ det' = [det EXCEPT !.out = <<detectCodexSessionStatus(det.files)>>]
  /\ UNCHANGED detectFrame

DetectGemini ==
  /\ Alive
  /\ det.agentType = "gemini"
  /\ det.out = <<>>
  /\ det' = [det EXCEPT !.out = <<detectGeminiSessionStatus(det.files)>>]
  /\ UNCHANGED detectFrame

DetectOpenCode ==
  /\ Alive
  /\ det.agentType = "opencode"
  /\ det.out = <<>>
  /\ det' = [det EXCEPT !.out = <<detectOpenCodeSessionStatus(det.files)>>]
  /\ UNCHANGED detectFrame

DetectPi ==
  /\ Alive
  /\ det.agentType = "pi"
  /\ det.out = <<>>
  /\ \E sessionFiles \in findRecentJSONLFiles(det.files, PiDir, "") :
       det' = [det EXCEPT !.out = <<detectPiSessionStatus(sessionFiles)>>]
  /\ UNCHANGED detectFrame

(***************************************************************************)
(* SpecFormats: the classifiers of the formats without sub-agents on       *)
(* session files of bounded content and age: a newest file, possibly       *)
(* unreadable, and possibly an older one that ends in a user or an         *)
(* assistant message.                                                      *)
(***************************************************************************)
\* The ages of the newest file: below sessionActivityThreshold, equal to it,
\* above.
FormatAges == {10000, 30000, 60000}
OlderFormatAge == 100000
FormatDirs ==
  [codex |-> [dir |-> CodexDir, prefix |-> "rollout-", ext |-> ".jsonl", assistant |-> "assistant", other |-> "developer"],
   gemini |-> [dir |-> GeminiDir, prefix |-> "session-", ext |-> ".json", assistant |-> "gemini", other |-> "info"],
   opencode |-> [dir |-> OpenCodeDir, prefix |-> "ses_", ext |-> ".json", assistant |-> "assistant", other |-> "system"],
   pi |-> [dir |-> PiDir, prefix |-> "", ext |-> ".jsonl", assistant |-> "assistant", other |-> "toolResult"]]
RoleFormats == DOMAIN FormatDirs
\* The messages of a file of the format with the assistant role a and the
\* unrecognized role o.
FormatRoles(a, o) == { <<>>, <<o>>, <<"user">>, <<"user", a>>, <<a, "user", o>> }

FormatInputs(t) ==
  LET d == FormatDirs[t] IN
  { {n1} \cup n2 :
      n1 \in {RoleFile(d.dir, d.prefix, "n1", d.ext, a, r) : a \in FormatAges, r \in FormatRoles(d.assistant, d.other)}
             \cup {Unreadable(RoleFile(d.dir, d.prefix, "n1", d.ext, a, <<"user">>)) : a \in FormatAges},
      n2 \in {{}} \cup {{RoleFile(d.dir, d.prefix, "n2", d.ext, OlderFormatAge, r)} : r \in {<<"user">>, <<d.assistant>>}} }

InitFormats ==
  /\ InitWatcher
  /\ InitManager
  /\ now = DetectNow
  /\ disk = [p \in AllPaths |-> NoFile]
  /\ hist = NoHist
  /\ codex = NoCodex
  /\ mStats = NoStats
  /\ lk = NoLock
  /\ \/ \E t \in RoleFormats : \E fs \in FormatInputs(t) :
          det = [agentType |-> t, files |-> fs, threads |-> {},
                 worktreePath |-> Worktree, out |-> <<>>]
     \/ \E ts \in AmpInputs :
          det = [agentType |-> "amp", files |-> {}, threads |-> ts,
                 worktreePath |-> Worktree, out |-> <<>>]

NextFormats ==
  \/ DetectCodex
  \/ DetectGemini
  \/ DetectOpenCode
  \/ DetectPi
  \/ DetectAmp

SpecFormats == InitFormats /\ [][NextFormats]_vars

\* The session file located for the working directory: the most recently
\* modified file of the format's directory; for Amp, the most recently
\* modified thread that matches the working directory.
Located ==
  IF det.agentType = "amp"
  THEN AmpLoop(CHOOSE c \in AmpCandidates(det.threads) : TRUE, det.worktreePath, 1).file
  ELSE MostRecentFile(det.files)

\* C34: in every format without sub-agents, a located session file modified
\* within sessionActivityThreshold gives (Active, true), whatever the role
\* of its last message.
C34_FreshIsActive ==
  (/\ det.agentType \in RoleFormats \cup {"amp"}
   /\ det.out # <<>>
   /\ Located # <<>>
   /\ Age(Located[1]) < sessionActivityThreshold)
    => det.out[1] = Res(StatusActive, TRUE)

\* The files of a Codex or Pi call, newest first, and whether a message
\* with a recognized role is read from a file.
HasRole(f) == f.readable /\ LastRole(f.roles, {"user", "assistant"}) # ""

\* C35: in Pi and Codex, a newest candidate that is stale and holds no
\* message with a recognized role is passed over: the next-newest
\* candidate's last message decides and the result is found.
C35_StaleNewestFallsThrough ==
  (/\ det.agentType \in {"pi", "codex"}
   /\ det.out # <<>>
   /\ Cardinality(det.files) = 2
   /\ Age(MostRecentFile(det.files)[1]) >= sessionActivityThreshold
   /\ ~HasRole(MostRecentFile(det.files)[1])
   /\ \E f \in det.files : HasRole(f))
    => det.out[1].ok

(***************************************************************************)
(* SpecLock: the critical sections of tw.mu.  Each user of the lock is a   *)
(* goroutine that runs one call after the other; a call is the sequence of *)
(* the statements it executes, by kind: "lock" and "unlock" of tw.mu,      *)
(* "mem" for reads and writes of tw.sessions, tw.hotIDs and tw.watchDirs,  *)
(* "stat" for os.Stat, "watchAdd" for tw.watcher.Add, "send" for the       *)
(* non-blocking send on tw.events.  The sequences are the paths through    *)
(* the functions' code.                                                    *)
(***************************************************************************)
\* RegisterSession: a registered ID returns at once, a new one is stat'ed
\* and stored.
RegisterSessionSteps ==
  { <<"lock", "mem", "unlock">>,
    <<"lock", "mem", "stat", "mem", "unlock">> }
\* RegisterSessions: the batch is stored and autoPromoteRecentLocked
\* promotes, watching each promoted session's directory not yet watched.
RegisterSessionsSteps ==
  { <<"lock", "mem", "unlock">>,
    <<"lock", "mem", "watchAdd", "mem", "unlock">>,
    <<"lock", "mem", "watchAdd", "mem", "watchAdd", "mem", "unlock">> }
\* PromoteToHot: an unknown or hot ID returns; a promoted session's
\* directory is watched if it is not yet.
PromoteToHotSteps ==
  { <<"lock", "mem", "unlock">>,
    <<"lock", "mem", "watchAdd", "mem", "unlock">> }
\* The debounce callback: a known session is stat'ed and refreshed, then
\* the event is sent (not for a Remove).
CallbackSteps ==
  { <<"lock", "mem", "unlock">>,
    <<"lock", "mem", "unlock", "send">>,
    <<"lock", "mem", "stat", "mem", "unlock">>,
    <<"lock", "mem", "stat", "mem", "unlock", "send">> }
\* pollColdSessions: the cold sessions are collected, then each is stat'ed,
\* and a changed one is refreshed and reported.
PollSteps ==
  { <<"lock", "mem", "unlock">>,
    <<"lock", "mem", "unlock", "stat">>,
    <<"lock", "mem", "unlock", "stat", "lock", "mem", "unlock", "send">>,
    <<"lock", "mem", "unlock", "stat", "stat", "lock", "mem", "unlock", "send">> }
StepsOf(t) ==
  IF t = "RegisterSession" THEN RegisterSessionSteps
  ELSE IF t = "RegisterSessions" THEN RegisterSessionsSteps
  ELSE IF t = "PromoteToHot" THEN PromoteToHotSteps
  ELSE IF t = "callback" THEN CallbackSteps
  ELSE PollSteps
\* The statements that stat or read a file or register an OS watch.
IOSteps == {"stat", "watchAdd"}

lockFrame == <<twVars, envVars, pollVars, demotePc, wlVars, closePc, mgrVars, panicked, hist, det, codex, mStats>>

\* A user of the lock begins a call.
LockCall ==
  /\ Alive
  /\ \E t \in LockUsers : \E steps \in StepsOf(t) :
       /\ lk.todo[t] = <<>>
       /\ lk' = [lk EXCEPT !.todo[t] = steps]
  /\ UNCHANGED lockFrame

\* A user executes its next statement; Lock waits until tw.mu is free.
LockStep ==
  /\ Alive
  /\ \E t \in LockUsers :
       /\ lk.todo[t] # <<>>
       /\ Head(lk.todo[t]) = "lock" => lk.mu = "none"
       /\ lk' = [lk EXCEPT !.todo[t] = Tail(@),
                           !.mu = IF Head(lk.todo[t]) = "lock" THEN t
                                  ELSE IF Head(lk.todo[t]) = "unlock" THEN "none"
                                  ELSE @]
  /\ UNCHANGED lockFrame

InitLock ==
  /\ InitWatcher
  /\ InitManager
  /\ InitDisk(<<>>)
  /\ hist = NoHist
  /\ det = NoDet
  /\ codex = NoCodex
  /\ mStats = NoStats
  /\ lk = NoLock

NextLock ==
  \/ LockCall
  \/ LockStep

SpecLock == InitLock /\ [][NextLock]_vars

\* C31: no user of tw.mu stats or reads a file or registers an OS watch
\* while it holds the lock: whoever is about to execute such a statement is
\* not the holder.
C31_NoIOUnderLock ==
  \A t \in LockUsers :
    (lk.todo[t] # <<>> /\ Head(lk.todo[t]) \in IOSteps) => lk.mu # t

====
